---- MODULE Spec2Model ----
(***************************************************************************)
(* LegalAPI (src/DZ11/legal_api.py): a schema-driven API client.           *)
(* State: the operation catalog built at construction, the retry           *)
(* configuration, the progress of the call the running thread is           *)
(* executing, and the frames of the calls other threads have in progress.  *)
(* Strings are TLA+ strings; the Python string operations used by the code *)
(* (in, lower, replace, quote, comparison) are modelled character by       *)
(* character.                                                              *)
(* Reference bot (src/DZ14/bot.py): the conversation of one chat.          *)
(* Survey bot (src/DZ15/bot.py): the respondents table of survey.db, and   *)
(* the conversation and user_data of one user.                             *)
(* roman_to_int (task2.py): a pure function of a string.                   *)
(***************************************************************************)
EXTENDS Integers, Sequences, FiniteSets, TLC

VARIABLES
    operations,   \* self._operations: the dict's values, in insertion order
    session_headers, \* self._session.headers: the items of the dict, in order
    retries,      \* self.retries
    backoff,      \* self.backoff, in tenths of a second
    pc,           \* "idle" | "attempt" (inside the loop of _request) | "done"
    ctx,          \* the public operation in progress and the locals it fixed
    attempt,      \* loop variable of _request
    last_err,     \* local last_err of _request
    requests,     \* requests issued by the operation, in order
    responses,    \* what each request got back, in order
    sleeps,       \* time.sleep durations of the operation, in order
    final_resp,   \* local resp of _request when the call ended on it, as read
    outcome,      \* what the operation returned or raised
    parked,       \* the frames of the calls of the other threads, not running now
    conversation, \* reference bot: the state ConversationHandler keeps for the chat
    handling,     \* reference bot: the last update and what was done with it
    roman,        \* roman_to_int: the argument of a call and what the call gave
    has_table,    \* survey bot: whether survey.db holds the table respondents
    respondents,  \* survey bot: the rows of the table, in the order of their ids
    db_result,    \* survey bot: the last database function called and what it gave
    chat,         \* survey bot: the state ConversationHandler keeps for the user
    user_data,    \* survey bot: context.user_data of the user
    seen,         \* survey bot: the last update and what was done with it
    answers       \* survey bot: the answers accepted since the survey button

\* the reference bot
bot == <<conversation, handling>>

\* the survey bot
survey == <<has_table, respondents, db_result, chat, user_data, seen, answers>>

\* the programs beside the client
others == <<bot, roman, survey>>

vars == <<operations, session_headers, retries, backoff, pc, ctx, attempt, last_err,
          requests, responses, sleeps, final_resp, outcome, parked, others>>

-----------------------------------------------------------------------------
(* Bounds of the model *)

\* largest retries value a client is constructed with
MaxRetries == 3

\* largest number of operations in a catalog of the resolver specification
MaxOps == 3

\* the most members of a schema document
MaxEntries == 2

\* the longest argument of roman_to_int, beside the examples of the file
MaxLen == 3

\* the most rows the table respondents holds
MaxRows == 2

-----------------------------------------------------------------------------
(* Python strings *)

\* the printable ASCII characters in code point order, in four runs that leave
\* out the double quote (34), the backslash (92) and the grave accent (96):
\* 32..33, 35..91, 93..95, 97..126
Ascii32 == " !"

Ascii35 == "#$%&'()*+,-./0123456789:;<=>?@ABCDEFGHIJKLMNOPQRSTUVWXYZ["

Ascii93 == "]^_"

Ascii97 == "abcdefghijklmnopqrstuvwxyz{|}~"

AsciiUpper == "ABCDEFGHIJKLMNOPQRSTUVWXYZ"

AsciiLower == "abcdefghijklmnopqrstuvwxyz"

\* characters quote() never encodes, whatever its safe argument is
Unreserved == "ABCDEFGHIJKLMNOPQRSTUVWXYZabcdefghijklmnopqrstuvwxyz0123456789_.-~"

HexDigits == "0123456789ABCDEF"

\* s[i-1] of Python: the i-th character, as a string of length 1
Char(s, i) == SubSeq(s, i, i)

\* the position of character c in table, 0 when absent
IndexIn(table, c) ==
    IF \E i \in 1..Len(table) : Char(table, i) = c
    THEN CHOOSE i \in 1..Len(table) : Char(table, i) = c
    ELSE 0

\* ord(c)
Ord(c) ==
    IF IndexIn(Ascii32, c) > 0 THEN 31 + IndexIn(Ascii32, c)
    ELSE IF IndexIn(Ascii35, c) > 0 THEN 34 + IndexIn(Ascii35, c)
    ELSE IF IndexIn(Ascii93, c) > 0 THEN 92 + IndexIn(Ascii93, c)
    ELSE 96 + IndexIn(Ascii97, c)

\* k in hay (substring test; the empty string is in every string)
Contains(hay, k) ==
    \E i \in 1..(Len(hay) - Len(k) + 1) : SubSeq(hay, i, i + Len(k) - 1) = k

LowerChar(c) ==
    IF IndexIn(AsciiUpper, c) > 0 THEN Char(AsciiLower, IndexIn(AsciiUpper, c)) ELSE c

RECURSIVE lower(_)
\* s.lower()
lower(s) == IF Len(s) = 0 THEN "" ELSE LowerChar(Char(s, 1)) \o lower(SubSeq(s, 2, Len(s)))

RECURSIVE replace(_, _, _)
\* s.replace(old, new), old not empty: every occurrence, left to right
replace(s, old, new) ==
    IF Len(s) < Len(old) THEN s
    ELSE IF SubSeq(s, 1, Len(old)) = old
    THEN new \o replace(SubSeq(s, Len(old) + 1, Len(s)), old, new)
    ELSE Char(s, 1) \o replace(SubSeq(s, 2, Len(s)), old, new)

UpperChar(c) ==
    IF IndexIn(AsciiLower, c) > 0 THEN Char(AsciiUpper, IndexIn(AsciiLower, c)) ELSE c

RECURSIVE upper(_)
\* s.upper()
upper(s) == IF Len(s) = 0 THEN "" ELSE UpperChar(Char(s, 1)) \o upper(SubSeq(s, 2, Len(s)))

RECURSIVE lstrip(_, _)
\* s.lstrip(c), c one character
lstrip(s, c) ==
    IF Len(s) > 0 /\ Char(s, 1) = c THEN lstrip(SubSeq(s, 2, Len(s)), c) ELSE s

RECURSIVE rstrip(_, _)
\* s.rstrip(c), c one character
rstrip(s, c) ==
    IF Len(s) > 0 /\ Char(s, Len(s)) = c THEN rstrip(SubSeq(s, 1, Len(s) - 1), c) ELSE s

\* s.strip(c), c one character
strip(s, c) == rstrip(lstrip(s, c), c)

\* a < b of Python strings: by code point, a proper prefix first
StrLess(a, b) ==
    \E i \in 1..(Len(b)) :
        /\ i <= Len(a) + 1
        /\ SubSeq(a, 1, i - 1) = SubSeq(b, 1, i - 1)
        /\ \/ i = Len(a) + 1
           \/ Ord(Char(a, i)) < Ord(Char(b, i))

-----------------------------------------------------------------------------
(* Operations and catalogs *)

\* the Operation dataclass
Operation(method, path, operation_id) ==
    [method |-> method, path |-> path, operation_id |-> operation_id]

\* operations a schema may declare
OpPool == {
    Operation("GET", "/efrsb/notices", "searchEFRSBNotices"),
    Operation("GET", "/debtors/{id}", "getDebtorByInn"),
    Operation("GET", "/efrsb/notices/{id}", "getEfrsbNotice"),
    Operation("POST", "/health", "ping") }

\* the catalog of the end-to-end scenario
ScenarioCatalog == <<
    Operation("GET", "/efrsb/notices", "searchEFRSBNotices"),
    Operation("GET", "/debtors/{id}", "getDebtorByInn") >>

\* the debtor operation as the end-to-end scenario names it
DebtorOp == Operation("GET", "/efrsb/debtors/{id}", "getEFRSBDebtor")

\* the catalog of the end-to-end scenario with that operation, in both
\* insertion orders
EndToEndCatalogs ==
    { << ScenarioCatalog[1], DebtorOp >>, << DebtorOp, ScenarioCatalog[1] >> }

\* an operation whose id is the name of a method of the client
MemberOp == Operation("GET", "/endpoints", "list_endpoints")

\* a catalog that holds it
MemberCatalog == << ScenarioCatalog[1], MemberOp >>

\* a catalog is a dict keyed by operation_id: non-empty, ids pairwise distinct
IsCatalog(ops) ==
    /\ Len(ops) >= 1
    /\ \A i, j \in 1..Len(ops) : ops[i].operation_id = ops[j].operation_id => i = j

\* every catalog of at most MaxOps operations of the pool, in every insertion order
Catalogs ==
    { ops \in UNION { [1..n -> OpPool] : n \in 1..MaxOps } : IsCatalog(ops) }

\* absence of an operation (Python's None)
NoOp == Operation("", "", "")

-----------------------------------------------------------------------------
(* Schema documents and the Catalog Builder: LegalAPI._build_operations_index *)

\* one member of a path item of schema["paths"]: its path, its key, the
\* operationId of its value ("" when there is none) and whether the value is a
\* JSON object
Entry(path, key, operationId, is_dict) ==
    [path |-> path, key |-> key, operationId |-> operationId, is_dict |-> is_dict]

\* members a schema document may hold: operations with an operationId, an
\* operation without one, the same method under the path with a trailing
\* slash, an operation that declares the id synthesized for those, a
\* parameters list, an extension object
DocEntries == {
    Entry("/efrsb/notices", "get", "searchEFRSBNotices", TRUE),
    Entry("/debtors/{id}", "get", "getDebtorByInn", TRUE),
    Entry("/health", "post", "ping", TRUE),
    Entry("/health", "get", "", TRUE),
    Entry("/health/", "get", "", TRUE),
    Entry("/status", "put", "get_health", TRUE),
    Entry("/efrsb/notices", "parameters", "", FALSE),
    Entry("/health", "x-meta", "", TRUE) }

\* paths is a dict of dicts: no (path, key) twice, the members of one path together
IsDocument(doc) ==
    /\ \A i, j \in 1..Len(doc) : doc[i] = doc[j] => i = j
    /\ \A i, j, k \in 1..Len(doc) :
           (i < j /\ j < k /\ doc[i].path = doc[k].path) => doc[j].path = doc[i].path

\* the schema documents of at most MaxEntries members, as the members in
\* iteration order; <<>> is a document with no paths
Docs ==
    { doc \in UNION { [1..n -> DocEntries] : n \in 0..MaxEntries } : IsDocument(doc) }

\* the synthetic operationId: METHOD_path
SyntheticId(method, path) ==
    lower(method) \o "_"
        \o replace(replace(replace(strip(path, "/"), "/", "_"), "{", ""), "}", "")

\* the Operation built for a member whose value is an object, tabulated
OperationOf ==
    [e \in DocEntries |->
        Operation(upper(e.key), e.path,
                  IF e.operationId /= "" THEN e.operationId
                  ELSE SyntheticId(e.key, e.path))]

\* every operation of the model: the pool and what the builder can build
AllOps == OpPool \cup { MemberOp, DebtorOp } \cup { OperationOf[e] : e \in DocEntries }

\* mutant: an id already in the dict keeps its operation
SetOp_keeping_first(ops, op) ==
    IF \E i \in 1..Len(ops) : ops[i].operation_id = op.operation_id
    THEN ops
    ELSE Append(ops, op)

\* ops[op.operation_id] = op on a dict kept as its values in insertion order
SetOp(ops, op) ==
    IF \E i \in 1..Len(ops) : ops[i].operation_id = op.operation_id
    THEN [i \in 1..Len(ops) |-> IF ops[i].operation_id = op.operation_id THEN op ELSE ops[i]]
    ELSE Append(ops, op)

RECURSIVE IndexOf(_, _)
\* ops after the first n members of the document went through the loops
IndexOf(schema, n) ==
    IF n = 0 THEN <<>>
    ELSE IF ~schema[n].is_dict THEN IndexOf(schema, n - 1)
    ELSE SetOp(IndexOf(schema, n - 1), OperationOf[schema[n]])

\* LegalAPI._build_operations_index: ops, before the test "if not ops"
_build_operations_index(schema) == IndexOf(schema, Len(schema))

-----------------------------------------------------------------------------
(* Keyword Resolver: LegalAPI._find_op *)

\* keyword tuples of the four convenience operations
KwSearch == <<"efrsb", "search", "find", "query", "lookup">>

KwDebtor == <<"efrsb", "debtor", "subject", "person">>

KwCase == <<"efrsb", "case", "proceeding", "bankruptcycase">>

KwNotices == <<"efrsb", "notice", "notices", "messages", "publications">>

\* keyword lists handed to the resolver directly
KeywordLists == {
    <<>>, <<"">>, <<"", "zzz">>, <<"zzz">>,
    <<"efrsb", "notice">>, <<"EFRSB", "">>, <<"debtor", "zzz">>,
    <<"get">>, <<"ping", "debtor">>, <<"Notices", "search">> }

\* every keyword list the resolver is queried with
ResolverQueries == KeywordLists \cup { KwSearch, KwDebtor, KwCase, KwNotices }

\* every keyword of those lists
Keywords == UNION { { kws[i] : i \in 1..Len(kws) } : kws \in ResolverQueries }

\* f"{op.operation_id} {op.path}".lower()
hay(op) == lower(op.operation_id \o " " \o op.path)

\* k.lower() in hay, tabulated once for the operations and keywords of the model
KeywordIn == [op \in AllOps |-> [k \in Keywords |-> Contains(hay(op), lower(k))]]

\* mutant: any() where the strict pass has all()
MatchesAll_any(op, keywords) ==
    \E i \in 1..Len(keywords) : keywords[i] /= "" /\ KeywordIn[op][keywords[i]]

\* all(k.lower() in hay for k in keywords if k)
MatchesAll(op, keywords) ==
    \A i \in 1..Len(keywords) : keywords[i] /= "" => KeywordIn[op][keywords[i]]

\* any(k.lower() in hay for k in keywords if k)
MatchesAny(op, keywords) ==
    \E i \in 1..Len(keywords) : keywords[i] /= "" /\ KeywordIn[op][keywords[i]]

\* mutant: the key is the length alone
KeyLess_length_only(a, b) == Len(a.operation_id) < Len(b.operation_id)

\* the operation ids of the model
Ids == { op.operation_id : op \in AllOps }

\* Python's < on the operation ids of the model, tabulated
IdLess == [a \in Ids, b \in Ids |-> StrLess(a, b)]

\* the sort key (len(o.operation_id), o.operation_id), compared as Python tuples
KeyLess(a, b) ==
    \/ Len(a.operation_id) < Len(b.operation_id)
    \/ /\ Len(a.operation_id) = Len(b.operation_id)
       /\ IdLess[a.operation_id, b.operation_id]

\* mutant: the candidates stay in insertion order
SortByKey_as_inserted(seq) == seq

\* list.sort(key=...): ascending, and stable: of two elements neither of which
\* is less than the other, the one that stood first stays first
SortByKey(seq) ==
    LET Sorted(s) ==
            LET n == Len(s)
                Before(i, j) ==
                    \/ KeyLess(s[i], s[j])
                    \/ ~KeyLess(s[j], s[i]) /\ i < j
                rank == [i \in 1..n |-> Cardinality({ j \in 1..n : Before(j, i) })]
            IN  [r \in 1..n |-> s[CHOOSE i \in 1..n : rank[i] = r - 1]]
    \* s is the value of seq, computed once
    IN  CHOOSE out \in { Sorted(s) : s \in {seq} } : TRUE

\* the fixed hint words of list_efrsb_methods
HintWords == <<"efrsb", "bankrupt", "bankruptcy", "debtor", "notice", "case", "insolv">>

\* any(k in key for k in (hint words)), key the lower-cased id and path,
\* tabulated once for the operations of the model
HintIn == [op \in AllOps |-> \E i \in 1..Len(HintWords) : Contains(hay(op), HintWords[i])]

\* the test of list_efrsb_methods on one operation
LooksEfrsb(op) == HintIn[op]

\* LegalAPI.list_efrsb_methods
list_efrsb_methods == SelectSeq(operations, LooksEfrsb)

\* the strict pass: candidates, in catalog order
StrictCandidates(keywords) ==
    LET Test(op) == MatchesAll(op, keywords)
    IN  SelectSeq(operations, Test)

\* mutant: the loose pass applies the tie-break of the strict pass
LooseMatches_sorted(keywords) ==
    LET Test(op) == MatchesAny(op, keywords)
    IN  SortByKey(SelectSeq(operations, Test))

\* the loose pass: the operations holding some keyword, in catalog order
LooseMatches(keywords) ==
    LET Test(op) == MatchesAny(op, keywords)
    IN  SelectSeq(operations, Test)

\* mutant: the hint words are a third matching pass
_find_op_hint_pass(keywords) ==
    LET candidates == StrictCandidates(keywords)
        loose == LooseMatches(keywords)
    IN  IF candidates /= <<>>
        THEN [found |-> TRUE, op |-> SortByKey(candidates)[1], tips |-> <<>>]
        ELSE IF loose /= <<>>
        THEN [found |-> TRUE, op |-> loose[1], tips |-> <<>>]
        ELSE IF list_efrsb_methods /= <<>>
        THEN [found |-> TRUE, op |-> list_efrsb_methods[1], tips |-> <<>>]
        ELSE [found |-> FALSE, op |-> NoOp, tips |-> <<>>]

\* LegalAPI._find_op: the operation returned, or the error raised
_find_op(keywords) ==
    LET candidates == StrictCandidates(keywords)
        loose == LooseMatches(keywords)
    IN  IF candidates /= <<>>
        THEN [found |-> TRUE, op |-> SortByKey(candidates)[1], tips |-> <<>>]
        ELSE IF loose /= <<>>
        THEN [found |-> TRUE, op |-> loose[1], tips |-> <<>>]
        ELSE [found |-> FALSE, op |-> NoOp, tips |-> list_efrsb_methods]

-----------------------------------------------------------------------------
(* Listing: LegalAPI.list_endpoints *)

\* mutant: the ids in the order of the catalog
sorted_as_inserted(seq) == seq

\* sorted(ids): ascending and stable
sorted(seq) ==
    LET n == Len(seq)
        Before(i, j) ==
            \/ IdLess[seq[i], seq[j]]
            \/ ~IdLess[seq[j], seq[i]] /\ i < j
        rank == [i \in 1..n |-> Cardinality({ j \in 1..n : Before(j, i) })]
    IN  [r \in 1..n |-> seq[CHOOSE i \in 1..n : rank[i] = r - 1]]

\* self._operations.keys(), in insertion order
keys == [i \in 1..Len(operations) |-> operations[i].operation_id]

\* LegalAPI.list_endpoints: the value returned
list_endpoints_value == sorted(keys)

-----------------------------------------------------------------------------
(* URL building: LegalAPI._build_url *)

\* self.base_url (the default, which has no trailing slash to strip)
base_url == "https://legal-api.sirotinsky.com"

\* one character percent-encoded: "%" and the two upper-case hex digits of ord(c)
PercentEncode(c) ==
    "%" \o Char(HexDigits, (Ord(c) \div 16) + 1) \o Char(HexDigits, (Ord(c) % 16) + 1)

\* mutant: the value goes into the URL as it is
quote_raw(v) == v

RECURSIVE quote(_)
\* requests.utils.quote(v, safe=""): everything but the unreserved characters
quote(v) ==
    IF Len(v) = 0 THEN ""
    ELSE (IF IndexIn(Unreserved, Char(v, 1)) > 0 THEN Char(v, 1) ELSE PercentEncode(Char(v, 1)))
         \o quote(SubSeq(v, 2, Len(v)))

RECURSIVE SubstituteAll(_, _)
\* the loop over path_params.items(), in the dict's order
SubstituteAll(url, path_params) ==
    IF path_params = <<>> THEN url
    ELSE SubstituteAll(
            replace(url, "{" \o Head(path_params).k \o "}", quote(Head(path_params).v)),
            Tail(path_params))

\* LegalAPI._build_url
_build_url(path_tpl, path_params) == SubstituteAll(base_url \o path_tpl, path_params)

-----------------------------------------------------------------------------
(* Inputs *)

\* path_params of a call: a dict, as its items in order; <<>> is None or {}
PathParamChoices ==
    { <<>>, << [k |-> "id", v |-> "12 / 5"] >>, << [k |-> "id", v |-> "12345"] >> }

\* the token the client was constructed with
token == "s3cr3t"

\* self._session.headers after __init__ updated them, as the items of the dict
SessionHeaders ==
    << [k |-> "Authorization", v |-> "Bearer " \o token],
       [k |-> "Accept", v |-> "application/json, */*"],
       [k |-> "User-Agent", v |-> "LegalAPI-Client/1.0"] >>

\* headers of a call: a dict, as its items in order; <<>> is None or {}
HeaderChoices ==
    { <<>>,
      << [k |-> "X-Request-Id", v |-> "42"] >>,
      << [k |-> "Authorization", v |-> "Basic YWxpY2U6cHc=" ] >> }

\* an optional dict argument: None, or a dict as its items in order
None == [none |-> TRUE, items |-> <<>>]

Dict(items) == [none |-> FALSE, items |-> items]

\* bool(x) of an optional dict: None and {} are false
Truthy(x) == ~x.none /\ x.items /= <<>>

\* body of a call: absent, or a structured body
BodyChoices == { None, Dict(<< [k |-> "inn", v |-> "7707083893"] >>) }

\* files of a call: absent, an empty dict, or one attachment
FileChoices == { None, Dict(<<>>), Dict(<< [k |-> "file", v |-> "report.pdf"] >>) }

\* no keyword argument given
NoArgs == [path_params |-> <<>>, headers |-> <<>>, body |-> None, files |-> None]

\* the keyword arguments of a direct call: path parameters, or headers, or a
\* body and files
CallArgs ==
    { [path_params |-> pp, headers |-> <<>>, body |-> None, files |-> None] :
        pp \in PathParamChoices }
    \cup { [path_params |-> <<>>, headers |-> h, body |-> None, files |-> None] :
        h \in HeaderChoices }
    \cup { [path_params |-> <<>>, headers |-> <<>>, body |-> b, files |-> f] :
        b \in BodyChoices, f \in FileChoices }

\* d[item.k] = item.v on a dict kept as its items in insertion order: the
\* value of a key already there is replaced in place, a new key goes last
SetItem(d, item) ==
    IF \E i \in 1..Len(d) : d[i].k = item.k
    THEN [i \in 1..Len(d) |-> IF d[i].k = item.k THEN item ELSE d[i]]
    ELSE Append(d, item)

RECURSIVE update(_, _)
\* d.update(other)
update(d, other) ==
    IF other = <<>> THEN d
    ELSE update(SetItem(d, Head(other)), Tail(other))

\* hdrs of _request: dict(self._session.headers), updated with the headers
\* of the call when there are any
hdrs(headers) == update(session_headers, headers)

\* ids a caller may pass to call
CallIds ==
    { op.operation_id : op \in OpPool } \cup { MemberOp.operation_id, "unknownOperation" }

\* status codes a server may answer with
StatusCodes == { 200, 299, 300, 404, 499, 500, 599, 600 }

\* what one self._session.request(...) can do: return a response with a status,
\* a declared content type (JSON or not) and a body (decodable as JSON or not),
\* or raise an exception
Responses ==
    [kind : {"status"}, status : StatusCodes, ctype_json : BOOLEAN, json_ok : BOOLEAN]
    \cup [kind : {"ConnectionError", "Timeout", "TooManyRedirects"},
          status : {0}, ctype_json : {FALSE}, json_ok : {FALSE}]

\* values of backoff, in tenths of a second (the default is 0.8)
Backoffs == { 5, 8 }

-----------------------------------------------------------------------------
(* Outcomes of an operation *)

NoOutcome ==
    [type |-> "none", cls |-> "", msg |-> "", status |-> 0, payload |-> "",
     detail |-> "", value |-> <<>>]

\* return value
Returned(value) == [NoOutcome EXCEPT !.type = "value", !.value = value]

\* raise LegalAPIError(message, status, payload); status 0 and payload "" are None
LegalAPIError(msg, status, payload, detail) ==
    [NoOutcome EXCEPT !.type = "error", !.cls = "LegalAPIError", !.msg = msg,
                      !.status = status, !.payload = payload, !.detail = detail]

\* an exception of another class leaving the operation
Propagated(cls) == [NoOutcome EXCEPT !.type = "error", !.cls = cls]

\* mutant: the body is never decoded
_safe_json_text_only(resp) == "text"

\* LegalAPI._safe_json: the decoded body, or {"text": resp.text}
_safe_json(resp) == IF resp.json_ok THEN "json" ELSE "text"

\* the locals of no operation
NoCtx ==
    [via |-> "", keywords |-> <<>>, operation_id |-> "", op |-> NoOp,
     method |-> "", url |-> "", path_params |-> <<>>, headers |-> <<>>,
     hdrs |-> <<>>, body |-> None, files |-> None, given |-> NoArgs, schema |-> <<>>]

-----------------------------------------------------------------------------
(* Request Executor: LegalAPI._request *)

\* send_json = (body is not None) and not files
send_json(body, files) == ~body.none /\ ~Truthy(files)

\* the request of one attempt: self._session.request(method, url, json=...,
\* data=..., files=..., headers=hdrs)
Request ==
    [method |-> ctx.method, url |-> ctx.url, headers |-> ctx.hdrs,
     json |-> IF send_json(ctx.body, ctx.files) THEN ctx.body ELSE None,
     data |-> IF send_json(ctx.body, ctx.files) THEN None ELSE ctx.body,
     files |-> ctx.files]

\* what the log keeps of a response: the exception class or the status
Seen(resp) == [kind |-> resp.kind, status |-> resp.status]

\* 200 <= resp.status_code < 300
IsSuccess(status) == 200 <= status /\ status < 300

\* mutant: the upper bound of the server-error range is dropped
IsServerError_unbounded(status) == 500 <= status

\* 500 <= resp.status_code < 600
IsServerError(status) == 500 <= status /\ status < 600

\* except (requests.ConnectionError, requests.Timeout)
IsCaught(kind) == kind \in {"ConnectionError", "Timeout"}

\* mutant: the comparison is strict, one retry short
MayRetry_one_short(n) == n < retries

\* mutant: one retry more than the budget
MayRetry_one_more(n) == n <= retries + 1

\* attempt <= self.retries: the failed attempt may be followed by another
MayRetry(n) == n <= retries

\* mutant: the loop runs once even when retries is negative
AttemptRange_never_empty == 1..(IF retries < 0 THEN 1 ELSE retries + 1)

\* the sequence the for loop runs over: range(1, self.retries + 2)
AttemptRange == 1..(retries + 1)

\* mutant: a constant delay instead of a linear one
SleepFor_constant(n) == backoff

\* time.sleep(self.backoff * attempt)
SleepFor(n) == backoff * n

\* the statement after the loop: raise LegalAPIError("Request failed after retries: ...")
AfterLoop(err) ==
    /\ pc' = "done"
    /\ outcome' = LegalAPIError("Request failed after retries", 0, "", err)

\* no response
NoResp == [kind |-> "none", status |-> 0, ctype_json |-> FALSE, json_ok |-> FALSE]

\* what _request reads of the response it ends on: of a 2xx response the
\* content type, and the body as JSON only when the type is JSON; of any other
\* response the status and the body, not the content type
Read(resp) ==
    IF resp.kind /= "status" THEN NoResp
    ELSE IF IsSuccess(resp.status)
    THEN [resp EXCEPT !.json_ok = resp.ctype_json /\ resp.json_ok]
    ELSE [resp EXCEPT !.ctype_json = FALSE]

\* mutant: the text of an earlier exception, when there was one
NetworkError_of_last_err(e) ==
    LegalAPIError("Network error at", 0, "", IF last_err = "None" THEN e ELSE last_err)

\* LegalAPIError(f"Network error at {url}: {e}"), e the exception just caught
NetworkError(e) == LegalAPIError("Network error at", 0, "", e)

\* the operation ends inside the loop on resp with result (a return or a raise)
Finish(result, resp) ==
    /\ pc' = "done"
    /\ outcome' = result
    /\ final_resp' = Read(resp)
    /\ UNCHANGED <<attempt, last_err, sleeps>>

\* sleep, then continue: the next value of the range, or the end of the loop
SleepAndContinue(err) ==
    /\ sleeps' = Append(sleeps, SleepFor(attempt))
    /\ last_err' = err
    /\ attempt' = attempt + 1
    /\ final_resp' = NoResp
    /\ IF attempt + 1 \in AttemptRange
       THEN pc' = "attempt" /\ outcome' = outcome
       ELSE AfterLoop(err)

\* the entry of _request: the locals, then the first value of the range
Enter_request ==
    /\ last_err' = "None"
    /\ sleeps' = <<>>
    /\ requests' = <<>>
    /\ responses' = <<>>
    /\ attempt' = 1
    /\ final_resp' = NoResp
    /\ IF 1 \in AttemptRange
       THEN pc' = "attempt" /\ outcome' = NoOutcome
       ELSE AfterLoop("None")

\* one pass of the loop body: the request is sent and resp comes back
Attempt(resp) ==
    /\ pc = "attempt"
    /\ requests' = Append(requests, Request)
    /\ responses' = Append(responses, Seen(resp))
    /\ UNCHANGED <<operations, session_headers, retries, backoff, parked, others, ctx>>
    /\ IF resp.kind = "status"
       THEN IF IsSuccess(resp.status)
            THEN IF resp.ctype_json
                 THEN IF resp.json_ok
                      THEN Finish(Returned("json"), resp)
                      ELSE Finish(Propagated("JSONDecodeError"), resp)
                 ELSE Finish(Returned("bytes"), resp)
            ELSE IF IsServerError(resp.status) /\ MayRetry(attempt)
                 THEN SleepAndContinue(last_err)
                 ELSE Finish(LegalAPIError("HTTP", resp.status, _safe_json(resp), ""), resp)
       ELSE IF IsCaught(resp.kind)
            THEN IF MayRetry(attempt)
                 THEN SleepAndContinue(resp.kind)
                 ELSE /\ pc' = "done"
                      /\ outcome' = NetworkError(resp.kind)
                      /\ last_err' = resp.kind
                      /\ final_resp' = NoResp
                      /\ UNCHANGED <<attempt, sleeps>>
            ELSE Finish(Propagated(resp.kind), resp)

\* LegalAPI._request, one attempt with whatever the network does
_request == \E resp \in Responses : Attempt(resp)

-----------------------------------------------------------------------------
(* Client Facade *)

\* mutant: an id that is not in the catalog gets the first operation
Lookup_or_first(operation_id) ==
    IF \E i \in 1..Len(operations) : operations[i].operation_id = operation_id
    THEN operations[CHOOSE i \in 1..Len(operations) : operations[i].operation_id = operation_id]
    ELSE operations[1]

\* self._operations.get(operation_id)
Lookup(operation_id) ==
    IF \E i \in 1..Len(operations) : operations[i].operation_id = operation_id
    THEN operations[CHOOSE i \in 1..Len(operations) : operations[i].operation_id = operation_id]
    ELSE NoOp

\* an operation that ends without entering _request
EndWithout_request(result) ==
    /\ pc' = "done"
    /\ outcome' = result
    /\ attempt' = 0
    /\ last_err' = "None"
    /\ requests' = <<>>
    /\ responses' = <<>>
    /\ sleeps' = <<>>
    /\ final_resp' = NoResp
    /\ UNCHANGED session_headers

\* mutant: the overrides are written into the session's own dict
SessionAfter_updated(headers) == update(session_headers, headers)

\* self._session.headers after hdrs = dict(self._session.headers) and
\* hdrs.update(headers): the copy was updated, the session's dict was not
SessionAfter(headers) == session_headers

\* the body of LegalAPI.call, reached through the public operation via
CallBody(via, keywords, operation_id, path_params, headers, body, files, given) ==
    LET op == Lookup(operation_id)
    IN  IF op = NoOp
        THEN /\ ctx' = [NoCtx EXCEPT !.via = via, !.keywords = keywords,
                                     !.operation_id = operation_id,
                                     !.given = given]
             /\ EndWithout_request(LegalAPIError("Unknown operationId", 0, "", operation_id))
        ELSE /\ ctx' = [NoCtx EXCEPT !.via = via, !.keywords = keywords,
                                     !.operation_id = operation_id,
                                     !.op = op, !.method = op.method,
                                     !.path_params = path_params,
                                     !.url = _build_url(op.path, path_params),
                                     !.headers = headers,
                                     !.body = body, !.files = files,
                                     !.given = given,
                                     !.hdrs = hdrs(headers)]
             /\ session_headers' = SessionAfter(headers)
             /\ Enter_request

\* LegalAPI.call with an id of ids and keyword arguments of argsets
CallWith(ids, argsets) ==
    /\ pc = "idle"
    /\ \E operation_id \in ids, args \in argsets :
           CallBody("call", <<>>, operation_id, args.path_params, args.headers,
                    args.body, args.files, args)
    /\ UNCHANGED <<operations, retries, backoff, parked, others>>

\* LegalAPI.call
call == CallWith(CallIds, CallArgs)

\* names that normal attribute lookup finds on a client: __getattr__ is not
\* called for them
Members ==
    { "base_url", "timeout", "retries", "backoff", "list_endpoints",
      "list_efrsb_methods", "call", "efrsb_search", "efrsb_get_debtor",
      "efrsb_get_case", "efrsb_list_notices" }

\* the keyword arguments of client.name(...)
GetattrArgs ==
    { [NoArgs EXCEPT !.path_params = << [k |-> "id", v |-> "12345"] >>],
      [NoArgs EXCEPT !.headers = << [k |-> "X-Request-Id", v |-> "42"] >>] }

\* mutant: the closure does not pass the headers on
_caller_without_headers(args) == [args EXCEPT !.headers = <<>>]

\* _caller of __getattr__: the keyword arguments it passes to self.call
_caller(args) == args

\* client.name(...): the member of that name called with keyword arguments it
\* does not take when there is one, else LegalAPI.__getattr__ and the call of
\* the closure it returns
__getattr__ ==
    /\ pc = "idle"
    /\ \E name \in CallIds, args \in GetattrArgs :
           IF name \in Members
           THEN /\ ctx' = [NoCtx EXCEPT !.via = "attribute", !.operation_id = name,
                                        !.given = args]
                /\ EndWithout_request(Propagated("TypeError"))
           ELSE IF Lookup(name) /= NoOp
           THEN LET a == _caller(args)
                IN  CallBody("__getattr__", <<>>, name, a.path_params, a.headers,
                             a.body, a.files, args)
           ELSE /\ ctx' = [NoCtx EXCEPT !.via = "__getattr__", !.operation_id = name,
                                        !.given = args]
                /\ EndWithout_request(Propagated("AttributeError"))
    /\ UNCHANGED <<operations, retries, backoff, parked, others>>

\* a convenience operation: _find_op(keywords), then call(op.operation_id, ...)
Convenience(via, keywords, path_params) ==
    LET r == _find_op(keywords)
    IN  IF r.found
        THEN CallBody(via, keywords, r.op.operation_id, path_params, <<>>, None, None,
                      [NoArgs EXCEPT !.path_params = path_params])
        ELSE /\ ctx' = [NoCtx EXCEPT !.via = via, !.keywords = keywords]
             /\ EndWithout_request(
                    [LegalAPIError("no EFRSB method for keywords", 0, "", "")
                        EXCEPT !.value = r.tips])

\* LegalAPI.efrsb_search
efrsb_search ==
    /\ pc = "idle"
    /\ Convenience("efrsb_search", KwSearch, <<>>)
    /\ UNCHANGED <<operations, retries, backoff, parked, others>>

\* LegalAPI.efrsb_get_debtor
efrsb_get_debtor ==
    /\ pc = "idle"
    /\ \E path_params \in PathParamChoices :
           Convenience("efrsb_get_debtor", KwDebtor, path_params)
    /\ UNCHANGED <<operations, retries, backoff, parked, others>>

\* LegalAPI.efrsb_get_case
efrsb_get_case ==
    /\ pc = "idle"
    /\ \E path_params \in PathParamChoices :
           Convenience("efrsb_get_case", KwCase, path_params)
    /\ UNCHANGED <<operations, retries, backoff, parked, others>>

\* LegalAPI.efrsb_list_notices
efrsb_list_notices ==
    /\ pc = "idle"
    /\ Convenience("efrsb_list_notices", KwNotices, <<>>)
    /\ UNCHANGED <<operations, retries, backoff, parked, others>>

\* mutant: the tie-break sort is applied to the catalog itself
FindOp_sorting_catalog ==
    /\ pc = "idle"
    /\ \E keywords \in KeywordLists :
           LET r == _find_op(keywords)
           IN  /\ ctx' = [NoCtx EXCEPT !.via = "_find_op", !.keywords = keywords, !.op = r.op]
               /\ EndWithout_request(
                      IF r.found THEN Returned(r.op)
                      ELSE [LegalAPIError("no EFRSB method for keywords", 0, "", "")
                               EXCEPT !.value = r.tips])
    /\ operations' = SortByKey(operations)
    /\ UNCHANGED <<retries, backoff, parked, others>>

\* a direct query of the Keyword Resolver
FindOp ==
    /\ pc = "idle"
    /\ \E keywords \in KeywordLists :
           LET r == _find_op(keywords)
           IN  /\ ctx' = [NoCtx EXCEPT !.via = "_find_op", !.keywords = keywords, !.op = r.op]
               /\ EndWithout_request(
                      IF r.found THEN Returned(r.op)
                      ELSE [LegalAPIError("no EFRSB method for keywords", 0, "", "")
                               EXCEPT !.value = r.tips])
    /\ UNCHANGED <<operations, retries, backoff, parked, others>>

\* mutant: the listing sorts the catalog itself
list_endpoints_in_place ==
    /\ pc = "idle"
    /\ ctx' = [NoCtx EXCEPT !.via = "list_endpoints"]
    /\ EndWithout_request(Returned(list_endpoints_value))
    /\ operations' = SortByKey(operations)
    /\ UNCHANGED <<retries, backoff, parked, others>>

\* LegalAPI.list_endpoints
list_endpoints ==
    /\ pc = "idle"
    /\ ctx' = [NoCtx EXCEPT !.via = "list_endpoints"]
    /\ EndWithout_request(Returned(list_endpoints_value))
    /\ UNCHANGED <<operations, retries, backoff, parked, others>>

\* the operation has returned or raised; its frame and locals are gone and the
\* client is ready for the next operation
Return ==
    /\ pc = "done"
    /\ pc' = "idle"
    /\ ctx' = NoCtx
    /\ attempt' = 0
    /\ last_err' = "None"
    /\ requests' = <<>>
    /\ responses' = <<>>
    /\ sleeps' = <<>>
    /\ outcome' = NoOutcome
    /\ final_resp' = NoResp
    /\ UNCHANGED <<operations, session_headers, retries, backoff, parked, others>>

-----------------------------------------------------------------------------
(* Construction: LegalAPI.__init__, the Schema Loader and the Catalog Builder *)

json_url == base_url \o "/openapi.json"

yaml_url == base_url \o "/openapi.yaml"

\* status codes a schema location may answer with
SchemaStatusCodes == { 200, 299, 404, 503 }

\* what one self._session.get(...) of the loader can do: answer with a status
\* and a body that decodes as JSON or does not, or raise
SchemaResponses ==
    [kind : {"status"}, status : SchemaStatusCodes, json_ok : BOOLEAN]
    \cup [kind : {"ConnectionError", "Timeout"}, status : {0}, json_ok : {FALSE}]

\* what the log keeps of a loader response
SeenBody(resp) == [kind |-> resp.kind, status |-> resp.status, json_ok |-> resp.json_ok]

\* mutant: every 2xx status counts
StatusOk_any_2xx(resp) == resp.kind = "status" /\ IsSuccess(resp.status)

\* the get returned and r.status_code == 200
StatusOk(resp) == resp.kind = "status" /\ resp.status = 200

\* the document came back: status 200 and r.json() / json.loads(r.text) decoded it
Loaded(resp) == StatusOk(resp) /\ resp.json_ok

\* raise LegalAPIError(f"... {json_url} или {yaml_url}. ..."): the schema could
\* not be loaded from either location
SchemaNotLoaded ==
    LegalAPIError("OpenAPI schema not loaded", 0, "", json_url \o " " \o yaml_url)

\* raise LegalAPIError("OpenAPI schema is YAML; ...")
SchemaIsYaml == LegalAPIError("OpenAPI schema is YAML", 0, "", "")

\* raise LegalAPIError("OpenAPI schema parsed, but no operations found.")
NoOperationsFound == LegalAPIError("OpenAPI schema parsed, but no operations found.", 0, "", "")

\* what the second try block leaves behind when the secondary did not give a
\* document: a status other than 200 and an exception of the get fall through,
\* and SchemaIsYaml, raised inside the try, is caught by its "except Exception:
\* pass"; in every case the final raise follows
AfterSecondTry(resp) == SchemaNotLoaded

\* LegalAPI.__init__ up to self._load_openapi_schema(): a client is being
\* constructed; operations stays the catalog of the client the caller holds
__init__ ==
    /\ pc = "idle"
    /\ pc' = "load_json"
    /\ ctx' = [NoCtx EXCEPT !.via = "__init__"]
    /\ attempt' = 0
    /\ last_err' = "None"
    /\ requests' = <<>>
    /\ responses' = <<>>
    /\ sleeps' = <<>>
    /\ outcome' = NoOutcome
    /\ final_resp' = NoResp
    /\ session_headers' = SessionHeaders
    /\ UNCHANGED <<operations, retries, backoff, parked, others>>

\* _load_openapi_schema, first try block: get json_url; r.json() gives some
\* document
LoadJson(resp) ==
    /\ pc = "load_json"
    /\ requests' = Append(requests, [method |-> "GET", url |-> json_url,
                                     headers |-> session_headers])
    /\ responses' = Append(responses, SeenBody(resp))
    /\ IF Loaded(resp)
       THEN /\ pc' = "build"
            /\ \E doc \in Docs : ctx' = [ctx EXCEPT !.schema = doc]
       ELSE /\ pc' = "load_yaml"
            /\ ctx' = ctx
    /\ UNCHANGED <<operations, session_headers, retries, backoff, parked, others, attempt, last_err,
                   sleeps, final_resp, outcome>>

\* _load_openapi_schema, second try block and the final raise: get yaml_url;
\* json.loads(r.text) gives some document
LoadYaml(resp) ==
    /\ pc = "load_yaml"
    /\ requests' = Append(requests,
                          [method |-> "GET", url |-> yaml_url,
                           headers |-> hdrs(<<[k |-> "Accept", v |-> "application/yaml, */*"]>>)])
    /\ responses' = Append(responses, SeenBody(resp))
    /\ IF Loaded(resp)
       THEN /\ pc' = "build"
            /\ \E doc \in Docs : ctx' = [ctx EXCEPT !.schema = doc]
            /\ outcome' = outcome
       ELSE /\ pc' = "done"
            /\ ctx' = ctx
            /\ outcome' = AfterSecondTry(resp)
    /\ UNCHANGED <<operations, session_headers, retries, backoff, parked, others, attempt, last_err,
                   sleeps, final_resp>>

\* LegalAPI._load_openapi_schema, one request with whatever the network does
_load_openapi_schema ==
    \E resp \in SchemaResponses : LoadJson(resp) \/ LoadYaml(resp)

\* self._operations = self._build_operations_index(self._schema)
BuildIndex ==
    /\ pc = "build"
    /\ pc' = "done"
    /\ outcome' = LET ops == _build_operations_index(ctx.schema)
                  IN  IF ops = <<>> THEN NoOperationsFound ELSE Returned(ops)
    /\ UNCHANGED <<operations, session_headers, retries, backoff, parked, others, ctx, attempt, last_err,
                   requests, responses, sleeps, final_resp>>

\* __init__ returns: the caller holds the new client
Constructed ==
    /\ pc = "done"
    /\ ctx.via = "__init__"
    /\ outcome.type = "value"
    /\ operations' = outcome.value
    /\ pc' = "idle"
    /\ ctx' = NoCtx
    /\ attempt' = 0
    /\ last_err' = "None"
    /\ requests' = <<>>
    /\ responses' = <<>>
    /\ sleeps' = <<>>
    /\ outcome' = NoOutcome
    /\ final_resp' = NoResp
    /\ UNCHANGED <<session_headers, retries, backoff, parked, others>>

\* __init__ raises: the caller keeps the client it had
ConstructionFailed ==
    /\ ctx.via = "__init__"
    /\ outcome.type = "error"
    /\ Return

-----------------------------------------------------------------------------
(* Threads: calls on one client that run interleaved *)

\* the number of threads that call the client
Threads == 2

\* what a thread keeps of its own while it is inside call and _request: its
\* position and the arguments and locals on its stack
Frame ==
    [pc |-> pc, ctx |-> ctx, attempt |-> attempt, last_err |-> last_err,
     requests |-> requests, responses |-> responses, sleeps |-> sleeps,
     final_resp |-> final_resp, outcome |-> outcome]

\* the frame of a thread that is not inside a call
IdleFrame ==
    [pc |-> "idle", ctx |-> NoCtx, attempt |-> 0, last_err |-> "None",
     requests |-> <<>>, responses |-> <<>>, sleeps |-> <<>>,
     final_resp |-> NoResp, outcome |-> NoOutcome]

\* mutant: the loop variable is kept on the client, not on the stack
ResumedAttempt_of_client(f) == attempt

\* the loop variable a thread finds when it runs again: its own local
ResumedAttempt(f) == f.attempt

\* the scheduler lets another thread run: the running thread is parked where
\* it is and a parked one goes on from where it was
Switch ==
    \E i \in 1..Len(parked) :
        /\ parked' = [parked EXCEPT ![i] = Frame]
        /\ pc' = parked[i].pc
        /\ ctx' = parked[i].ctx
        /\ attempt' = ResumedAttempt(parked[i])
        /\ last_err' = parked[i].last_err
        /\ requests' = parked[i].requests
        /\ responses' = parked[i].responses
        /\ sleeps' = parked[i].sleeps
        /\ final_resp' = parked[i].final_resp
        /\ outcome' = parked[i].outcome
        /\ UNCHANGED <<operations, session_headers, retries, backoff, others>>

\* the calls the threads make: one operation, with and without a header of
\* their own
ThreadCallArgs ==
    { NoArgs, [NoArgs EXCEPT !.headers = << [k |-> "X-Request-Id", v |-> "42"] >>] }

\* LegalAPI.call, made by the running thread
call_in_thread == CallWith({ ScenarioCatalog[1].operation_id }, ThreadCallArgs)

\* what the network does to the requests of the threads: a decodable 200, a
\* 404, a 500, a connection error
ThreadResponses ==
    { r \in Responses :
        \/ r.kind = "ConnectionError"
        \/ r.status \in {404, 500} /\ ~r.ctype_json /\ ~r.json_ok
        \/ r.status = 200 /\ r.ctype_json /\ r.json_ok }

\* LegalAPI._request, one attempt of the running thread
_request_in_thread == \E resp \in ThreadResponses : Attempt(resp)

-----------------------------------------------------------------------------
(* Reference bot: the conversation of one chat *)

\* no conversation yet: ConversationHandler has no state for the chat
NoConversation == "None"

\* no update handled yet
NoUpdate == [text |-> "", from |-> NoConversation, handler |-> "", raised |-> FALSE]

\* MAIN, ABOUT, PRODUCTS, PRICING, FAQ, CONTACTS = range(6), by name
ConversationStates == { "MAIN", "ABOUT", "PRODUCTS", "PRICING", "FAQ", "CONTACTS" }

\* the labels BTN_BACK .. BTN_PROD_C of the keyboard buttons, each written
\* here as a word of letters in place of its emoji and Cyrillic text
BTN ==
    [BACK |-> "Back", HOME |-> "Home", ABOUT |-> "About", PRODUCTS |-> "Products",
     PRICING |-> "Pricing", FAQ |-> "FAQ", CONTACTS |-> "Contacts", HELP |-> "Help",
     PROD_A |-> "Product A", PROD_B |-> "Product B", PROD_C |-> "Product C"]

\* the text of an update: a command, a button, a button with blanks around it,
\* anything else
Texts ==
    { "/start", "/help", "/cancel", "/settings", "hello", " Back ", " About " }
    \cup { BTN[b] : b \in DOMAIN BTN }

\* filters.COMMAND: the message starts with a bot command
IsCommand(text) == Char(text, 1) = "/"

\* ConversationHandler(...) is built without allow_reentry: its default
allow_reentry == FALSE

\* the handler ConversationHandler picks for an update with this text: an
\* entry point when there is no conversation (or re-entry is allowed), else
\* the handler of the current state, else a fallback; "" when none matches
Chosen(text) ==
    LET entry == IF text = "/start" THEN "cmd_start"
                 ELSE IF text = "/help" THEN "cmd_help"
                 ELSE ""
        byState == [MAIN |-> "handle_main", ABOUT |-> "handle_about",
                    PRODUCTS |-> "handle_products", PRICING |-> "handle_pricing",
                    FAQ |-> "handle_faq", CONTACTS |-> "handle_contacts"]
    IN  IF (conversation = NoConversation \/ allow_reentry) /\ entry /= ""
        THEN entry
        ELSE IF conversation = NoConversation THEN ""
        ELSE IF ~IsCommand(text) THEN byState[conversation]
        ELSE IF text = "/cancel" THEN "cmd_cancel"
        ELSE ""

\* await update.message.reply_text(...) and then return next: when the reply
\* is sent the conversation moves to next; when reply_text raises, the handler
\* ends there, on_error runs and the conversation stays where it was
Reply(name, text, sent, next) ==
    /\ handling' = [text |-> text, from |-> conversation, handler |-> name,
                    raised |-> ~sent]
    /\ conversation' = IF sent THEN next ELSE conversation
    /\ UNCHANGED <<operations, session_headers, retries, backoff, pc, ctx, attempt,
                   last_err, requests, responses, sleeps, final_resp, outcome, parked,
                   roman, survey>>

\* cmd_start
cmd_start ==
    \E text \in Texts, sent \in BOOLEAN :
        /\ Chosen(text) = "cmd_start"
        /\ Reply("cmd_start", text, sent, "MAIN")

\* cmd_help
cmd_help ==
    \E text \in Texts, sent \in BOOLEAN :
        /\ Chosen(text) = "cmd_help"
        /\ Reply("cmd_help", text, sent, "MAIN")

\* cmd_cancel
cmd_cancel ==
    \E text \in Texts, sent \in BOOLEAN :
        /\ Chosen(text) = "cmd_cancel"
        /\ Reply("cmd_cancel", text, sent, "MAIN")

\* handle_main
handle_main ==
    \E message \in Texts, sent \in BOOLEAN :
        /\ Chosen(message) = "handle_main"
        /\ LET text == strip(message, " ")
           IN  Reply("handle_main", message, sent,
                     IF text = BTN.ABOUT THEN "ABOUT"
                     ELSE IF text = BTN.PRODUCTS THEN "PRODUCTS"
                     ELSE IF text = BTN.PRICING THEN "PRICING"
                     ELSE IF text = BTN.FAQ THEN "FAQ"
                     ELSE IF text = BTN.CONTACTS THEN "CONTACTS"
                     ELSE "MAIN")

\* handle_about
handle_about ==
    \E message \in Texts, sent \in BOOLEAN :
        /\ Chosen(message) = "handle_about"
        /\ LET text == strip(message, " ")
           IN  Reply("handle_about", message, sent,
                     IF text = BTN.BACK THEN "MAIN"
                     ELSE IF text = BTN.HOME THEN "MAIN"
                     ELSE "ABOUT")

\* handle_products
handle_products ==
    \E message \in Texts, sent \in BOOLEAN :
        /\ Chosen(message) = "handle_products"
        /\ LET text == strip(message, " ")
           IN  Reply("handle_products", message, sent,
                     IF text \in { BTN.PROD_A, BTN.PROD_B, BTN.PROD_C } THEN "PRODUCTS"
                     ELSE IF text = BTN.BACK THEN "MAIN"
                     ELSE IF text = BTN.HOME THEN "MAIN"
                     ELSE "PRODUCTS")

\* handle_pricing
handle_pricing ==
    \E message \in Texts, sent \in BOOLEAN :
        /\ Chosen(message) = "handle_pricing"
        /\ LET text == strip(message, " ")
           IN  Reply("handle_pricing", message, sent,
                     IF text = BTN.BACK THEN "MAIN"
                     ELSE IF text = BTN.HOME THEN "MAIN"
                     ELSE "PRICING")

\* mutant: the section does not know the Home button
handle_faq_without_home ==
    \E message \in Texts, sent \in BOOLEAN :
        /\ Chosen(message) = "handle_faq"
        /\ LET text == strip(message, " ")
           IN  Reply("handle_faq", message, sent,
                     IF text = BTN.BACK THEN "MAIN" ELSE "FAQ")

\* handle_faq
handle_faq ==
    \E message \in Texts, sent \in BOOLEAN :
        /\ Chosen(message) = "handle_faq"
        /\ LET text == strip(message, " ")
           IN  Reply("handle_faq", message, sent,
                     IF text = BTN.BACK THEN "MAIN"
                     ELSE IF text = BTN.HOME THEN "MAIN"
                     ELSE "FAQ")

\* handle_contacts
handle_contacts ==
    \E message \in Texts, sent \in BOOLEAN :
        /\ Chosen(message) = "handle_contacts"
        /\ LET text == strip(message, " ")
           IN  Reply("handle_contacts", message, sent,
                     IF text = BTN.BACK THEN "MAIN"
                     ELSE IF text = BTN.HOME THEN "MAIN"
                     ELSE "CONTACTS")

\* an update no handler of the conversation matches: nothing is done with it
Unhandled ==
    \E text \in Texts :
        /\ Chosen(text) = ""
        /\ handling' = [text |-> text, from |-> conversation, handler |-> "",
                        raised |-> FALSE]
        /\ UNCHANGED <<operations, session_headers, retries, backoff, pc, ctx, attempt,
                       last_err, requests, responses, sleeps, final_resp, outcome, parked,
                       conversation, roman, survey>>

-----------------------------------------------------------------------------
(* Survey bot: survey.db and the conversation of one user *)

\* STACK_OPTIONS, each option written here in letters and digits of ASCII
STACK_OPTIONS == <<"Never", "Novice", "1-3 years", "3+ years">>

\* CONSENT_OPTIONS, written the same way
CONSENT_OPTIONS == <<"Da", "Net">>

\* update.effective_user.id: the user of the conversation, and another user
Users == { 1, 2 }

\* a row of respondents, by the columns the bot fills from the answers; the
\* columns id, tg_username and created_at are left out, and the rows are kept
\* in the order of their ids
Row(tg_user_id, q_name, q_age, q_city, q_stack, q_consent) ==
    [tg_user_id |-> tg_user_id, q_name |-> q_name, q_age |-> q_age, q_city |-> q_city,
     q_stack |-> q_stack, q_consent |-> IF q_consent THEN 1 ELSE 0]

\* the rows insert_row is called with
RowChoices ==
    { Row(u, "Al", a, c, "Novice", k) :
        u \in Users, a \in { 10, 120 }, c \in { "Rome", "Oslo" }, k \in BOOLEAN }

\* what a database function does: the table and its rows afterwards, and what
\* the function returned or raised
Db(tbl, rws, out) == [has_table |-> tbl, respondents |-> rws, out |-> out]

\* return v
DbValue(v) == [type |-> "value", value |-> v]

\* sqlite3.OperationalError: no such table: respondents
OperationalError == [type |-> "error", value |-> "OperationalError"]

\* ensure_table_exists: CREATE TABLE IF NOT EXISTS
ensure_table_exists == Db(TRUE, respondents, DbValue("None"))

\* init_db: CREATE TABLE IF NOT EXISTS
init_db == Db(TRUE, respondents, DbValue("None"))

\* insert_row
insert_row(row) ==
    IF has_table
    THEN Db(TRUE, Append(respondents, row), DbValue("None"))
    ELSE Db(FALSE, respondents, OperationalError)

\* count_rows
count_rows ==
    IF has_table
    THEN Db(TRUE, respondents, DbValue(Len(respondents)))
    ELSE Db(FALSE, respondents, OperationalError)

\* ORDER BY id DESC LIMIT limit
LastRows(rws, limit) ==
    LET n == IF limit < Len(rws) THEN limit ELSE Len(rws)
    IN  [i \in 1..n |-> rws[Len(rws) + 1 - i]]

\* get_last_rows: the except branch returns [] and executes nothing else
get_last_rows(limit) ==
    IF has_table
    THEN Db(TRUE, respondents, DbValue(LastRows(respondents, limit)))
    ELSE Db(FALSE, respondents, DbValue(<<>>))

\* the metrics get_stats returns for a missing table; None is <<>>, and a
\* number that may be None is a sequence of it
EmptyMetrics ==
    [total |-> 0, avg_age |-> <<>>, min_age |-> <<>>, max_age |-> <<>>,
     by_stack |-> <<>>, top_cities |-> <<>>, consent_rate |-> <<>>]

RECURSIVE SumOf(_, _)
\* the sum of column over rws
SumOf(rws, column) ==
    IF rws = <<>> THEN 0 ELSE rws[1][column] + SumOf(Tail(rws), column)

\* the four queries of get_stats over rws; an average is <<sum, count>>,
\* by_stack a dict from option to count, top_cities the list of (city, count)
\* ordered by count descending and city ascending, five at most
Metrics(rws) ==
    LET n == Len(rws)
        ages == { rws[i].q_age : i \in 1..n }
        stacks == { rws[i].q_stack : i \in 1..n }
        cities == { rws[i].q_city : i \in 1..n }
        cnt(c) == Cardinality({ i \in 1..n : rws[i].q_city = c })
        Before(a, b) == cnt(a) > cnt(b) \/ (cnt(a) = cnt(b) /\ StrLess(a, b))
        rank(c) == Cardinality({ d \in cities : Before(d, c) })
        top == IF Cardinality(cities) < 5 THEN Cardinality(cities) ELSE 5
    IN  IF n = 0 THEN EmptyMetrics
        ELSE [total |-> n,
              avg_age |-> <<SumOf(rws, "q_age"), n>>,
              min_age |-> <<CHOOSE a \in ages : \A b \in ages : a <= b>>,
              max_age |-> <<CHOOSE a \in ages : \A b \in ages : a >= b>>,
              by_stack |-> [k \in stacks |->
                               Cardinality({ i \in 1..n : rws[i].q_stack = k })],
              top_cities |-> [r \in 1..top |->
                                 LET c == CHOOSE c \in cities : rank(c) = r - 1
                                 IN  <<c, cnt(c)>>],
              consent_rate |-> <<SumOf(rws, "q_consent"), n>>]

\* get_stats: the except branch calls ensure_table_exists
get_stats ==
    IF has_table
    THEN Db(TRUE, respondents, DbValue(Metrics(respondents)))
    ELSE Db(TRUE, respondents, DbValue(EmptyMetrics))

\* export_csv_bytes: after the header line, the rows in the order of their ids
export_csv_bytes ==
    IF has_table
    THEN Db(TRUE, respondents, DbValue(respondents))
    ELSE Db(FALSE, respondents, OperationalError)

\* mutant: the DELETE has no WHERE clause
delete_user_data_of_everyone(tg_user_id) ==
    IF has_table
    THEN Db(TRUE, <<>>, DbValue(Len(respondents)))
    ELSE Db(FALSE, respondents, OperationalError)

\* delete_user_data: DELETE ... WHERE tg_user_id = ?, and cur.rowcount
delete_user_data(tg_user_id) ==
    LET Kept(row) == row.tg_user_id /= tg_user_id
        kept == SelectSeq(respondents, Kept)
    IN  IF has_table
        THEN Db(TRUE, kept, DbValue(Len(respondents) - Len(kept)))
        ELSE Db(FALSE, respondents, OperationalError)

\* no result of a database function
NoResult == [fn |-> "", had_table |-> TRUE, type |-> "none", value |-> <<>>]

\* a database function called by a program that imported the module, before
\* the bot runs
CallDb(fn, r) ==
    /\ chat = NoConversation
    /\ has_table' = r.has_table
    /\ respondents' = r.respondents
    /\ db_result' = [fn |-> fn, had_table |-> has_table, type |-> r.out.type,
                     value |-> r.out.value]
    /\ UNCHANGED <<operations, session_headers, retries, backoff, pc, ctx, attempt,
                   last_err, requests, responses, sleeps, final_resp, outcome, parked,
                   bot, roman, chat, user_data, seen, answers>>

call_init_db == CallDb("init_db", init_db)

call_ensure_table_exists == CallDb("ensure_table_exists", ensure_table_exists)

call_insert_row ==
    \E row \in RowChoices :
        /\ Len(respondents) < MaxRows
        /\ CallDb("insert_row", insert_row(row))

call_count_rows == CallDb("count_rows", count_rows)

call_get_last_rows == \E limit \in { 1, 10 } : CallDb("get_last_rows", get_last_rows(limit))

call_get_stats == CallDb("get_stats", get_stats)

call_export_csv_bytes == CallDb("export_csv_bytes", export_csv_bytes)

call_delete_user_data ==
    \E tg_user_id \in Users : CallDb("delete_user_data", delete_user_data(tg_user_id))

-----------------------------------------------------------------------------
(* Survey bot: the conversation of one user *)

\* MENU, Q_NAME, Q_AGE, Q_CITY, Q_STACK, Q_CONSENT = range(6), by name
SurveyStates == { "MENU", "Q_NAME", "Q_AGE", "Q_CITY", "Q_STACK", "Q_CONSENT" }

\* the labels BTN_SURVEY .. BTN_HELP of the menu keyboard, each written here
\* as a word of letters in place of its emoji and Cyrillic text
SurveyBTN ==
    [SURVEY |-> "Survey", STATS |-> "Stats", LAST |-> "Last", EXPORT |-> "Export",
     DELETE_ME |-> "Delete me", HELP |-> "Help"]

\* update.effective_user of the updates of the conversation
effective_user == [id |-> 1]

\* the row another user left in the table in an earlier run of the bot
OtherRow == Row(2, "Al", 120, "Oslo", "Novice", TRUE)

\* the text of an update sent in a state: a command, and what a user sends
\* there: in the menu a button, a button with blanks around it or other text;
\* at a question an answer that is accepted or one that is not
SurveyTexts(state) ==
    { "/start", "/help", "/cancel" }
    \cup CASE state = "MENU" ->
                 { SurveyBTN[b] : b \in DOMAIN SurveyBTN } \cup { "hello", " Survey " }
            [] state = "Q_NAME" -> { "Al", "A", " A " }
            [] state = "Q_AGE" -> { "10", "120", " 10 ", "9", "121", "abc", "-5" }
            [] state = "Q_CITY" -> { "Rome", "R" }
            [] state = "Q_STACK" -> { "Novice", "Expert" }
            [] state = "Q_CONSENT" -> { "Da", "Net", " Da ", "Maybe" }
            [] OTHER -> { "hello" }

\* (update.message.text or "").strip(), tabulated for the texts of the model
Stripped ==
    [message \in UNION { SurveyTexts(state) : state \in SurveyStates \cup { NoConversation } }
        |-> strip(message, " ")]

\* context.user_data; "" and 0 stand for a key that is not in the dict
NoUserData ==
    [q_name |-> "", q_age |-> 0, q_city |-> "", q_stack |-> "", q_consent |-> ""]

\* the answers accepted since the survey button was last handled, and the
\* number of rows inserted since then
NoAnswers ==
    [q_name |-> "", q_age |-> 0, q_city |-> "", q_stack |-> "", q_consent |-> "",
     inserted |-> 0]

\* what a handler passes to reply_text or reply_document: which message, and
\* the number it shows
Said(kind, n) == [kind |-> kind, n |-> n]

\* no update handled yet
NoSeen ==
    [text |-> "", from |-> NoConversation, handler |-> "", raised |-> FALSE,
     reply |-> Said("", 0)]

\* the handler ConversationHandler picks for an update with this text: an
\* entry point when there is no conversation (or re-entry is allowed), else
\* the handler of the current state, else a fallback; "" when none matches
SurveyChosen(text) ==
    LET entry == IF text = "/start" THEN "cmd_start"
                 ELSE IF text = "/help" THEN "cmd_help"
                 ELSE ""
        byState == [MENU |-> "handle_menu", Q_NAME |-> "q_name", Q_AGE |-> "q_age",
                    Q_CITY |-> "q_city", Q_STACK |-> "q_stack", Q_CONSENT |-> "q_consent"]
    IN  IF (chat = NoConversation \/ allow_reentry) /\ entry /= ""
        THEN entry
        ELSE IF chat = NoConversation THEN ""
        ELSE IF ~IsCommand(text) THEN byState[chat]
        ELSE IF text = "/cancel" THEN "cmd_cancel"
        ELSE ""

\* await update.message.reply_text(...) and then return next: when the reply
\* is sent the conversation moves to next; when it raises, the handler ends
\* there, on_error runs and the conversation stays where it was
SurveyReply(name, message, sent, next, reply) ==
    /\ seen' = [text |-> message, from |-> chat, handler |-> name, raised |-> ~sent,
                reply |-> reply]
    /\ chat' = IF sent THEN next ELSE chat
    /\ UNCHANGED <<operations, session_headers, retries, backoff, pc, ctx, attempt,
                   last_err, requests, responses, sleeps, final_resp, outcome, parked,
                   bot, roman, db_result>>

\* cmd_start of the survey bot
survey_cmd_start ==
    \E message \in SurveyTexts(chat), sent \in BOOLEAN :
        /\ SurveyChosen(message) = "cmd_start"
        /\ SurveyReply("cmd_start", message, sent, "MENU", Said("menu", 0))
        /\ UNCHANGED <<has_table, respondents, user_data, answers>>

\* cmd_help of the survey bot
survey_cmd_help ==
    \E message \in SurveyTexts(chat), sent \in BOOLEAN :
        /\ SurveyChosen(message) = "cmd_help"
        /\ SurveyReply("cmd_help", message, sent, "MENU", Said("menu", 0))
        /\ UNCHANGED <<has_table, respondents, user_data, answers>>

\* mutant: /cancel leaves the conversation at the question
CancelTo_same_state == chat

\* return MENU of cmd_cancel
CancelTo == "MENU"

\* cmd_cancel of the survey bot
survey_cmd_cancel ==
    \E message \in SurveyTexts(chat), sent \in BOOLEAN :
        /\ SurveyChosen(message) = "cmd_cancel"
        /\ SurveyReply("cmd_cancel", message, sent, CancelTo, Said("cancelled", 0))
        /\ UNCHANGED <<has_table, respondents, user_data, answers>>

\* a branch of handle_menu that calls a database function and then replies:
\* the function's changes are committed before the reply; when the function
\* raises, the handler ends there
MenuDb(message, sent, r, kind) ==
    /\ has_table' = r.has_table
    /\ respondents' = r.respondents
    /\ UNCHANGED <<user_data, answers>>
    /\ IF r.out.type = "value"
       THEN SurveyReply("handle_menu", message, sent, "MENU",
                        Said(kind, IF kind = "stats" THEN r.out.value.total
                                   ELSE IF kind = "deleted" THEN r.out.value
                                   ELSE Len(r.out.value)))
       ELSE SurveyReply("handle_menu", message, FALSE, "MENU", Said("", 0))

\* handle_menu
handle_menu ==
    \E message \in SurveyTexts(chat), sent \in BOOLEAN :
        /\ SurveyChosen(message) = "handle_menu"
        /\ LET text == Stripped[message]
           IN  IF text = SurveyBTN.SURVEY
               THEN /\ SurveyReply("handle_menu", message, sent, "Q_NAME", Said("question 1", 0))
                    /\ answers' = NoAnswers
                    /\ UNCHANGED <<has_table, respondents, user_data>>
               ELSE IF text = SurveyBTN.STATS
               THEN MenuDb(message, sent, get_stats, "stats")
               ELSE IF text = SurveyBTN.LAST
               THEN MenuDb(message, sent, get_last_rows(10), "last")
               ELSE IF text = SurveyBTN.EXPORT
               THEN MenuDb(message, sent, export_csv_bytes, "export")
               ELSE IF text = SurveyBTN.DELETE_ME
               THEN MenuDb(message, sent, delete_user_data(effective_user.id), "deleted")
               ELSE /\ SurveyReply("handle_menu", message, sent, "MENU",
                                   Said(IF text = SurveyBTN.HELP THEN "menu" ELSE "unknown", 0))
                    /\ UNCHANGED <<has_table, respondents, user_data, answers>>

\* a question handler up to its reply: an answer that is not accepted is
\* answered with a request to repeat and stores nothing; an accepted one is
\* stored under key and answered with the next question
Question(name, message, sent, accepted, key, value, next) ==
    /\ UNCHANGED <<has_table, respondents>>
    /\ IF accepted
       THEN /\ user_data' = [user_data EXCEPT ![key] = value]
            /\ answers' = [answers EXCEPT ![key] = value]
            /\ SurveyReply(name, message, sent, next, Said("question", 0))
       ELSE /\ UNCHANGED <<user_data, answers>>
            /\ SurveyReply(name, message, sent, chat, Said("repeat", 0))

\* q_name
q_name ==
    \E message \in SurveyTexts(chat), sent \in BOOLEAN :
        /\ SurveyChosen(message) = "q_name"
        /\ LET name == Stripped[message]
           IN  Question("q_name", message, sent, ~(Len(name) < 2), "q_name", name, "Q_AGE")

\* raw.isdigit(), for the characters of the model
isdigit(raw) ==
    /\ Len(raw) > 0
    /\ \A i \in 1..Len(raw) : IndexIn("0123456789", Char(raw, i)) > 0

RECURSIVE int(_)
\* int(raw) of a string of digits
int(raw) ==
    IF Len(raw) = 0 THEN 0
    ELSE 10 * int(SubSeq(raw, 1, Len(raw) - 1))
         + IndexIn("0123456789", Char(raw, Len(raw))) - 1

\* not (age < 10 or age > 120)
AgeInRange(age) == ~(age < 10 \/ age > 120)

\* q_age
q_age ==
    \E message \in SurveyTexts(chat), sent \in BOOLEAN :
        /\ SurveyChosen(message) = "q_age"
        /\ LET raw == Stripped[message]
               age == IF isdigit(raw) THEN int(raw) ELSE 0
           IN  Question("q_age", message, sent, isdigit(raw) /\ AgeInRange(age),
                        "q_age", age, "Q_CITY")

\* q_city
q_city ==
    \E message \in SurveyTexts(chat), sent \in BOOLEAN :
        /\ SurveyChosen(message) = "q_city"
        /\ LET city == Stripped[message]
           IN  Question("q_city", message, sent, ~(Len(city) < 2), "q_city", city, "Q_STACK")

\* x in options
InList(x, options) == \E i \in 1..Len(options) : options[i] = x

\* q_stack
q_stack ==
    \E message \in SurveyTexts(chat), sent \in BOOLEAN :
        /\ SurveyChosen(message) = "q_stack"
        /\ LET stack == Stripped[message]
           IN  Question("q_stack", message, sent, InList(stack, STACK_OPTIONS),
                        "q_stack", stack, "Q_CONSENT")

\* q_consent: the consent is stored, then insert_row is called inside try;
\* a key missing from user_data or an error of the database (db_ok false)
\* is caught, and answered with the message that the answers were not saved
q_consent ==
    \E message \in SurveyTexts(chat), sent \in BOOLEAN, db_ok \in BOOLEAN :
        /\ SurveyChosen(message) = "q_consent"
        /\ LET consent_text == Stripped[message]
               consent == consent_text = CONSENT_OPTIONS[1]
               data == [user_data EXCEPT !.q_consent = IF consent THEN "True" ELSE "False"]
               complete == /\ data.q_name /= ""
                           /\ data.q_age /= 0
                           /\ data.q_city /= ""
                           /\ data.q_stack /= ""
               r == IF complete /\ db_ok
                    THEN insert_row(Row(effective_user.id, data.q_name, data.q_age,
                                        data.q_city, data.q_stack, consent))
                    ELSE Db(has_table, respondents, OperationalError)
               saved == r.out.type = "value"
           IN  IF ~InList(consent_text, CONSENT_OPTIONS)
               THEN /\ UNCHANGED <<has_table, respondents, user_data, answers>>
                    /\ SurveyReply("q_consent", message, sent, "Q_CONSENT", Said("repeat", 0))
               ELSE /\ Len(respondents) < MaxRows
                    /\ user_data' = data
                    /\ has_table' = r.has_table
                    /\ respondents' = r.respondents
                    /\ answers' = [answers EXCEPT
                                      !.q_consent = data.q_consent,
                                      !.inserted = IF saved THEN @ + 1 ELSE @]
                    /\ SurveyReply("q_consent", message, sent, "MENU",
                                   Said(IF saved THEN "saved" ELSE "not saved", 0))

\* an update no handler of the conversation takes
SurveyUnhandled ==
    \E message \in SurveyTexts(chat) :
        /\ SurveyChosen(message) = ""
        /\ seen' = [text |-> message, from |-> chat, handler |-> "", raised |-> FALSE,
                    reply |-> Said("", 0)]
        /\ UNCHANGED <<operations, session_headers, retries, backoff, pc, ctx, attempt,
                       last_err, requests, responses, sleeps, final_resp, outcome, parked,
                       bot, roman, has_table, respondents, db_result, chat, user_data,
                       answers>>

\* the survey bot at rest: an empty table, no conversation, no update
SurveyIdle ==
    /\ has_table = TRUE
    /\ respondents = <<>>
    /\ db_result = NoResult
    /\ chat = NoConversation
    /\ user_data = NoUserData
    /\ seen = NoSeen
    /\ answers = NoAnswers

-----------------------------------------------------------------------------
(* roman_to_int *)

\* the characters of the arguments: the seven numerals, two of them in lower
\* case, a letter that is no numeral, a digit, the blank
RomanChars == { "I", "V", "X", "L", "C", "D", "M", "i", "x", "A", "1", " " }

RECURSIVE StringsOf(_, _)
\* the strings of exactly n characters of chars
StringsOf(chars, n) ==
    IF n = 0 THEN { "" }
    ELSE { s \o c : s \in StringsOf(chars, n - 1), c \in chars }

\* the arguments: every string of at most MaxLen characters, and the examples
RomanArguments ==
    UNION { StringsOf(RomanChars, n) : n \in 0..MaxLen }
    \cup { "LVIII", "MCMXCIV", " mcmxciv " }

\* vals
vals ==
    [c \in { "I", "V", "X", "L", "C", "D", "M" } |->
        CASE c = "I" -> 1 [] c = "V" -> 5 [] c = "X" -> 10 [] c = "L" -> 50
          [] c = "C" -> 100 [] c = "D" -> 500 [] c = "M" -> 1000]

\* allowed_sub
allowed_sub == { "IV", "IX", "XL", "XC", "CD", "CM" }

\* raise ValueError(...)
ValueError(msg) == [type |-> "error", cls |-> "ValueError", msg |-> msg, value |-> 0]

\* return total
ReturnTotal(total) == [type |-> "value", cls |-> "", msg |-> "", value |-> total]

\* no call made
NoRoman == [s |-> "", called |-> FALSE, outcome |-> ReturnTotal(0)]

RECURSIVE RomanLoop(_, _, _)
\* the while loop from position i (s[i - 1] in Python) with total so far
RomanLoop(s, i, total) ==
    IF i > Len(s) THEN ReturnTotal(total)
    ELSE LET c == Char(s, i)
         IN  IF c \notin DOMAIN vals THEN ValueError("bad character")
             ELSE IF i + 1 <= Len(s)
             THEN LET c2 == Char(s, i + 1)
                  IN  IF c2 \notin DOMAIN vals THEN ValueError("bad character")
                      ELSE IF vals[c] < vals[c2]
                      THEN IF (c \o c2) \notin allowed_sub
                           THEN ValueError("bad subtractive pair")
                           ELSE RomanLoop(s, i + 2, total + vals[c2] - vals[c])
                      ELSE RomanLoop(s, i + 1, total + vals[c])
             ELSE RomanLoop(s, i + 1, total + vals[c])

\* roman_to_int(s) for a str s; s.strip() takes off the blanks at both ends
roman_to_int(s) ==
    IF strip(s, " ") = "" THEN ValueError("empty")
    ELSE RomanLoop(strip(upper(s), " "), 1, 0)

\* a call of roman_to_int with the argument at hand
CallRoman ==
    /\ ~roman.called
    /\ roman' = [roman EXCEPT !.called = TRUE, !.outcome = roman_to_int(roman.s)]
    /\ UNCHANGED <<operations, session_headers, retries, backoff, pc, ctx, attempt,
                   last_err, requests, responses, sleeps, final_resp, outcome, parked,
                   bot, survey>>

-----------------------------------------------------------------------------
(* Specifications *)

\* the client after construction, its catalog one of catalogs, with the other
\* threads at frames, and the reference bot before its first update
InitClient(catalogs, retriesValues, backoffs, frames) ==
    /\ operations \in catalogs
    /\ parked = frames
    /\ conversation = NoConversation
    /\ handling = NoUpdate
    /\ session_headers = SessionHeaders
    /\ retries \in retriesValues
    /\ backoff \in backoffs
    /\ pc = "idle"
    /\ ctx = NoCtx
    /\ attempt = 0
    /\ last_err = "None"
    /\ requests = <<>>
    /\ responses = <<>>
    /\ sleeps = <<>>
    /\ final_resp = NoResp
    /\ outcome = NoOutcome

\* the client, with the other programs at rest
InitFrames(catalogs, retriesValues, backoffs, frames) ==
    /\ roman = NoRoman
    /\ SurveyIdle
    /\ InitClient(catalogs, retriesValues, backoffs, frames)

\* the client after construction, used by one thread
InitWith(catalogs, retriesValues, backoffs) ==
    InitFrames(catalogs, retriesValues, backoffs, <<>>)

\* the scenario catalog with the default backoff and every retries value, and
\* in both insertion orders with every backoff and one or two retries
Init ==
    \/ InitWith({ ScenarioCatalog }, (-1)..MaxRetries, {8})
    \/ InitWith({ ScenarioCatalog, <<ScenarioCatalog[2], ScenarioCatalog[1]>> },
                {1, 2}, Backoffs)

\* every catalog, calls of a single attempt
InitResolve == InitWith(Catalogs \cup { MemberCatalog } \cup EndToEndCatalogs, {0}, {8})

Next ==
    \/ call
    \/ efrsb_search
    \/ efrsb_get_debtor
    \/ efrsb_get_case
    \/ efrsb_list_notices
    \/ __getattr__
    \/ FindOp
    \/ list_endpoints
    \/ _request
    \/ Return

Spec == Init /\ [][Next]_vars

SpecResolve == InitResolve /\ [][Next]_vars

\* no client yet; clients are constructed one after the other
InitBuild == InitWith({ <<>> }, {0}, {8})

NextBuild ==
    \/ __init__
    \/ _load_openapi_schema
    \/ BuildIndex
    \/ Constructed
    \/ ConstructionFailed

SpecBuild == InitBuild /\ [][NextBuild]_vars

\* one client with a retry budget of one or two, called by Threads threads
InitThreads ==
    InitFrames({ ScenarioCatalog }, {1, 2}, {8}, [i \in 1..(Threads - 1) |-> IdleFrame])

NextThreads ==
    \/ call_in_thread
    \/ _request_in_thread
    \/ Return
    \/ Switch

SpecThreads == InitThreads /\ [][NextThreads]_vars

\* one client, every retries value from 0; each request of a call completes
\* or times out (timeout=self.timeout), so an attempt in progress is always
\* followed by its end
InitLive == InitWith({ ScenarioCatalog }, 0..MaxRetries, {8})

NextLive ==
    \/ call_in_thread
    \/ _request
    \/ Return

SpecLive == InitLive /\ [][NextLive]_vars /\ WF_vars(_request)

\* the reference bot after start-up, no conversation yet
InitBot == InitWith({ ScenarioCatalog }, {0}, {8})

NextBot ==
    \/ cmd_start
    \/ cmd_help
    \/ cmd_cancel
    \/ handle_main
    \/ handle_about
    \/ handle_products
    \/ handle_pricing
    \/ handle_faq
    \/ handle_contacts
    \/ Unhandled

SpecBot == InitBot /\ [][NextBot]_vars

\* roman_to_int before a call, with each argument
InitRoman ==
    /\ roman \in { [NoRoman EXCEPT !.s = s] : s \in RomanArguments }
    /\ SurveyIdle
    /\ InitClient({ ScenarioCatalog }, {0}, {8}, <<>>)

NextRoman == CallRoman

\* the module imported in a directory whose survey.db has the table or not
InitSurveyDb ==
    /\ has_table \in BOOLEAN
    /\ respondents = <<>>
    /\ db_result = NoResult
    /\ chat = NoConversation
    /\ user_data = NoUserData
    /\ seen = NoSeen
    /\ answers = NoAnswers
    /\ roman = NoRoman
    /\ InitClient({ ScenarioCatalog }, {0}, {8}, <<>>)

NextSurveyDb ==
    \/ call_init_db
    \/ call_ensure_table_exists
    \/ call_insert_row
    \/ call_count_rows
    \/ call_get_last_rows
    \/ call_get_stats
    \/ call_export_csv_bytes
    \/ call_delete_user_data

SpecSurveyDb == InitSurveyDb /\ [][NextSurveyDb]_vars

\* the survey bot after main: init_db has run, the table is empty or holds
\* the row of another user, and no update has come yet
InitSurvey ==
    /\ has_table = TRUE
    /\ respondents \in { <<>>, << OtherRow >> }
    /\ db_result = NoResult
    /\ chat = NoConversation
    /\ user_data = NoUserData
    /\ seen = NoSeen
    /\ answers = NoAnswers
    /\ roman = NoRoman
    /\ InitClient({ ScenarioCatalog }, {0}, {8}, <<>>)

NextSurvey ==
    \/ survey_cmd_start
    \/ survey_cmd_help
    \/ survey_cmd_cancel
    \/ handle_menu
    \/ q_name
    \/ q_age
    \/ q_city
    \/ q_stack
    \/ q_consent
    \/ SurveyUnhandled

SpecSurvey == InitSurvey /\ [][NextSurvey]_vars

SpecRoman == InitRoman /\ [][NextRoman]_vars

-----------------------------------------------------------------------------
(* Request Executor: properties *)

\* a 500..599 status, or a connection or timeout error
Transient(r) ==
    \/ r.kind \in {"ConnectionError", "Timeout"}
    \/ r.kind = "status" /\ r.status >= 500 /\ r.status <= 599

\* the first n responses of the operation were all transient failures
AllTransient(n) == \A i \in 1..n : Transient(responses[i])

\* an execute is in progress or has just ended
InExecute == pc \in {"attempt", "done"} /\ ctx.op /= NoOp /\ ctx.url /= ""

\* an execute has ended
Executed == pc = "done" /\ ctx.op /= NoOp /\ ctx.url /= ""

\* C1: for every retries = R >= 0, as long as every attempt of an execute fails
\* transiently the call goes on to the next request, up to exactly R+1 requests;
\* after the (R+1)-th transient failure the call fails, and no (R+2)-th request
\* is ever issued.
C1_PersistentFailure ==
    (InExecute /\ retries >= 0) =>
        /\ Len(requests) = Len(responses)
        /\ Len(requests) <= retries + 1
        /\ (Len(responses) >= 1 /\ AllTransient(Len(responses))) =>
               IF Len(responses) = retries + 1
               THEN pc = "done" /\ outcome.type = "error"
               ELSE pc = "attempt"

\* retries = 3 and a server that answers 500 four times: four requests, then an error
C1_Witness ==
    /\ Executed
    /\ retries = 3
    /\ responses = [i \in 1..4 |-> [kind |-> "status", status |-> 500]]
    /\ Len(requests) = 4
    /\ outcome.type = "error"

\* C2 (as claimed): once all retries+1 attempts of a retried call have failed
\* transiently, the error raised says that the retries were exhausted, which no
\* error of a first attempt does.
C2_RetriesExhaustedError ==
    (Executed /\ retries >= 1 /\ Len(responses) = retries + 1
              /\ AllTransient(Len(responses))) =>
        /\ outcome.type = "error"
        /\ outcome.msg = "Request failed after retries"

\* C3 (as claimed): when the first k attempts (1 <= k <= retries) fail transiently
\* and attempt k+1 gets a 2xx status, exactly k+1 requests were issued and the
\* call returns the success result of attempt k+1, not an error.
C3_RecoveryReturnsSuccess ==
    (Executed /\ Len(responses) >= 2 /\ AllTransient(Len(responses) - 1)
              /\ responses[Len(responses)].kind = "status"
              /\ responses[Len(responses)].status >= 200
              /\ responses[Len(responses)].status <= 299) =>
        /\ Len(requests) = Len(responses)
        /\ Len(responses) - 1 <= retries
        /\ outcome.type = "value"

\* a status that is neither 2xx nor 500..599
IsTerminalStatus(r) ==
    /\ r.kind = "status"
    /\ ~(r.status >= 200 /\ r.status <= 299)
    /\ ~(r.status >= 500 /\ r.status <= 599)

\* C4: for every value of retries, an attempt that receives a non-2xx status
\* outside 500..599 ends the call at once with an http-error carrying that
\* status: the response is the last one, one request was issued for it, no
\* retry and no sleep follow it.
C4_NonRetryable ==
    \A n \in 1..Len(responses) :
        IsTerminalStatus(responses[n]) =>
            /\ n = Len(responses)
            /\ Len(requests) = n
            /\ Len(sleeps) = n - 1
            /\ pc = "done"
            /\ outcome.type = "error"
            /\ outcome.cls = "LegalAPIError"
            /\ outcome.msg = "HTTP"
            /\ outcome.status = responses[n].status

\* a 404 on the first attempt of a client with retries = 3
C4_Witness ==
    /\ Executed
    /\ retries = 3
    /\ responses = << [kind |-> "status", status |-> 404] >>
    /\ Len(requests) = 1
    /\ sleeps = <<>>
    /\ outcome.status = 404

\* C5: within one execute the n-th sleep lasts backoff x n and follows the n-th
\* failed attempt; there is none before the first attempt, none after the
\* attempt that ends the call (a success, a terminal failure or the last
\* allowed attempt): a attempts, a - 1 sleeps, at most retries of them.
C5_LinearBackoff ==
    InExecute =>
        /\ \A n \in 1..Len(sleeps) : sleeps[n] = backoff * n /\ Transient(responses[n])
        /\ pc = "attempt" => Len(sleeps) = Len(requests)
        /\ (pc = "done" /\ Len(requests) >= 1) => Len(sleeps) = Len(requests) - 1
        /\ (pc = "done" /\ Len(requests) = 0) => sleeps = <<>>
        /\ retries >= 0 => Len(sleeps) <= retries

\* four attempts with backoff 0.8: sleeps of 0.8, 1.6 and 2.4
C5_Witness ==
    /\ Executed
    /\ backoff = 8
    /\ Len(requests) = 4
    /\ sleeps = <<8, 16, 24>>

-----------------------------------------------------------------------------
(* Keyword Resolver: properties *)

\* the operation in progress queried the resolver with ctx.keywords
ResolverRan ==
    /\ pc /= "idle"
    /\ ctx.via \in {"_find_op", "efrsb_search", "efrsb_get_debtor", "efrsb_get_case",
                    "efrsb_list_notices"}

\* the combined string of op contains every non-empty keyword, case-insensitively
ContainsEvery(op, kws) ==
    \A i \in 1..Len(kws) : kws[i] /= "" => KeywordIn[op][kws[i]]

\* the combined string of op contains at least one non-empty keyword
ContainsSome(op, kws) ==
    \E i \in 1..Len(kws) : kws[i] /= "" /\ KeywordIn[op][kws[i]]

\* some operation of the catalog contains every keyword
SomeStrict(kws) == \E i \in 1..Len(operations) : ContainsEvery(operations[i], kws)

\* some operation of the catalog contains some keyword
SomeLoose(kws) == \E i \in 1..Len(operations) : ContainsSome(operations[i], kws)

\* a precedes b in the order (length of id, id)
Preferred(a, b) ==
    \/ Len(a.operation_id) < Len(b.operation_id)
    \/ Len(a.operation_id) = Len(b.operation_id) /\ StrLess(a.operation_id, b.operation_id)

\* C6: if at least one operation contains every non-empty keyword, the resolver
\* returns an operation that contains every keyword, never one that contains
\* only some of them.
C6_StrictPrecedence ==
    (ResolverRan /\ SomeStrict(ctx.keywords)) =>
        /\ ctx.op /= NoOp
        /\ ContainsEvery(ctx.op, ctx.keywords)

\* the first operation of the catalog contains some keywords only, and the
\* resolver returned a later one that contains them all
C6_Witness ==
    /\ ResolverRan
    /\ Len(operations) >= 2
    /\ ContainsSome(operations[1], ctx.keywords)
    /\ ~ContainsEvery(operations[1], ctx.keywords)
    /\ ctx.op = operations[2]
    /\ ContainsEvery(ctx.op, ctx.keywords)

\* C7: when several operations contain all keywords, the resolver returns the
\* one that is minimal under (length of id, id), wherever it stands in the catalog.
C7_TieBreak ==
    (ResolverRan /\ SomeStrict(ctx.keywords)) =>
        \A i \in 1..Len(operations) :
            ContainsEvery(operations[i], ctx.keywords) =>
                operations[i] = ctx.op \/ Preferred(ctx.op, operations[i])

\* two candidates with ids of equal length: the resolver returned the second of
\* the catalog, whose id is the lexicographically earlier one
C7_Witness ==
    /\ ResolverRan
    /\ Len(operations) >= 2
    /\ ContainsEvery(operations[1], ctx.keywords)
    /\ ContainsEvery(operations[2], ctx.keywords)
    /\ Len(operations[1].operation_id) = Len(operations[2].operation_id)
    /\ ctx.op = operations[2]

\* C8: for a fixed keyword list, no step of the client (a resolver query, a
\* direct call, one of its attempts, a listing, a failed call, a return)
\* changes what the resolver returns for it.
C8_Determinism ==
    [][\A kws \in ResolverQueries : _find_op(kws)' = _find_op(kws)]_vars

\* a resolver query answered by the loose pass, whose answer depends on the
\* catalog order, has been made
C8_Witness ==
    /\ pc = "done"
    /\ ctx.via = "_find_op"
    /\ ~SomeStrict(ctx.keywords)
    /\ Len(operations) >= 2
    /\ ContainsSome(operations[1], ctx.keywords)
    /\ ContainsSome(operations[2], ctx.keywords)
    /\ Preferred(operations[2], operations[1])
    /\ outcome = Returned(operations[1])

\* C9: when no operation contains all keywords, the resolver returns the first
\* operation in catalog order that contains at least one non-empty keyword.
C9_LooseFallback ==
    (ResolverRan /\ ~SomeStrict(ctx.keywords) /\ SomeLoose(ctx.keywords)) =>
        \E i \in 1..Len(operations) :
            /\ ctx.op = operations[i]
            /\ ContainsSome(operations[i], ctx.keywords)
            /\ \A j \in 1..(i - 1) : ~ContainsSome(operations[j], ctx.keywords)

\* the loose pass skipped the first operation and returned the second, although
\* a later one that also holds a keyword has the smaller key
C9_Witness ==
    /\ ResolverRan
    /\ ~SomeStrict(ctx.keywords)
    /\ Len(operations) >= 3
    /\ ~ContainsSome(operations[1], ctx.keywords)
    /\ ContainsSome(operations[3], ctx.keywords)
    /\ Preferred(operations[3], operations[2])
    /\ ctx.op = operations[2]

\* the resolver raised its error
ResolverFailed == ResolverRan /\ ctx.op = NoOp

\* C10 (as claimed): the resolver fails exactly when no operation's combined
\* string contains any of the keywords.
C10_FailsIffNoKeywordFound ==
    ResolverRan =>
        (ResolverFailed <=>
            ~\E i \in 1..Len(operations), j \in 1..Len(ctx.keywords) :
                KeywordIn[operations[i]][ctx.keywords[j]])

\* some keyword of the list is not the empty string
HasKeyword(kws) == \E i \in 1..Len(kws) : kws[i] /= ""

\* C10 (amended): the resolver fails exactly when the list holds a non-empty
\* keyword and no operation contains any non-empty keyword; the hint words
\* only build the message, so with a non-empty keyword the operation returned
\* contains one; a failed resolution issues no request.
C10_ResolverFailure ==
    ResolverRan =>
        /\ ResolverFailed <=> (HasKeyword(ctx.keywords) /\ ~SomeLoose(ctx.keywords))
        /\ (~ResolverFailed /\ HasKeyword(ctx.keywords)) => ContainsSome(ctx.op, ctx.keywords)
        /\ ResolverFailed =>
               /\ pc = "done"
               /\ requests = <<>>
               /\ outcome.type = "error"
               /\ outcome.msg = "no EFRSB method for keywords"
               /\ outcome.value = list_efrsb_methods

\* a convenience operation failed to resolve, in a catalog that holds an
\* operation with a hint word, and no request was issued
C10_Witness ==
    /\ ResolverFailed
    /\ ctx.via = "efrsb_get_case"
    /\ requests = <<>>
    /\ outcome.value /= <<>>

-----------------------------------------------------------------------------
(* Client Facade: properties *)

\* the path template of op has the placeholder {id}, the only one of the pool
PathHasId == [op \in AllOps |-> Contains(op.path, "{id}")]

\* the call in progress supplied a value for the placeholder name
Supplied(name) == \E i \in 1..Len(ctx.path_params) : ctx.path_params[i].k = name

\* a value was supplied for every placeholder of the template of the operation
AllSupplied == PathHasId[ctx.op] => Supplied("id")

\* the template of the operation with value in the place of {id}
WithId(value) == replace(ctx.op.path, "{id}", value)

\* the example of the specification, on the URL builder itself
C12_Example ==
    _build_url("/efrsb/debtors/{id}", << [k |-> "id", v |-> "12345"] >>)
        = "https://legal-api.sirotinsky.com/efrsb/debtors/12345"

\* C12: when the call supplies a value for every placeholder of the path
\* template, every request goes to the base location followed by the template
\* with {id} replaced by the percent-encoded value ("12345" stays as it is,
\* "12 / 5" becomes "12%20%2F%205"), and the URL holds no brace.
C12_PathSubstitution ==
    /\ C12_Example
    /\ (InExecute /\ AllSupplied) =>
          /\ ~Contains(ctx.url, "{") /\ ~Contains(ctx.url, "}")
          /\ \A i \in 1..Len(requests) : requests[i].url = ctx.url
          /\ ~PathHasId[ctx.op] =>
                 ctx.url = "https://legal-api.sirotinsky.com" \o ctx.op.path
          /\ (PathHasId[ctx.op] /\ ctx.path_params = << [k |-> "id", v |-> "12345"] >>) =>
                 ctx.url = "https://legal-api.sirotinsky.com" \o WithId("12345")
          /\ (PathHasId[ctx.op] /\ ctx.path_params = << [k |-> "id", v |-> "12 / 5"] >>) =>
                 ctx.url = "https://legal-api.sirotinsky.com" \o WithId("12%20%2F%205")

\* a request was sent for the debtor "12 / 5"
C12_Witness ==
    /\ Executed
    /\ ctx.op.path = "/debtors/{id}"
    /\ ctx.path_params = << [k |-> "id", v |-> "12 / 5"] >>
    /\ Len(requests) >= 1
    /\ requests[1].url = "https://legal-api.sirotinsky.com/debtors/12%20%2F%205"

\* C13 (as claimed): a call that supplies no value for a placeholder of the
\* path template fails with a missing-path-parameter error without issuing a
\* request, and no request ever goes to a URL that holds a brace.
C13_MissingPathParameter ==
    /\ \A i \in 1..Len(requests) : ~Contains(requests[i].url, "{")
    /\ (pc /= "idle" /\ ctx.op /= NoOp /\ ~AllSupplied) =>
          /\ pc = "done"
          /\ requests = <<>>
          /\ outcome.type = "error"
          /\ outcome.msg = "missing path parameter"

\* the ids of the catalog
CatalogIds == { operations[i].operation_id : i \in 1..Len(operations) }

\* a listing has just returned
Listed == pc = "done" /\ ctx.via = "list_endpoints"

UnknownCall == pc /= "idle" /\ ctx.via = "call" /\ ctx.operation_id \notin CatalogIds

\* C16: a direct call with an id that is not a key of the catalog ends at once
\* with the unknown-operation error, with no URL built and no request issued,
\* and the step that makes it leaves the catalog as it was; a direct call with
\* an id of the catalog sends every request with the method of the operation
\* stored under that id and, when no path parameter is passed, to the base
\* location followed by its path template.
C16_UnknownOperation ==
    /\ [](UnknownCall =>
            /\ pc = "done"
            /\ outcome.type = "error"
            /\ outcome.cls = "LegalAPIError"
            /\ outcome.msg = "Unknown operationId"
            /\ outcome.detail = ctx.operation_id
            /\ ctx.url = ""
            /\ requests = <<>>)
    /\ []((pc /= "idle" /\ ctx.via = "call" /\ ~UnknownCall) =>
            \E i \in 1..Len(operations) :
                /\ operations[i].operation_id = ctx.operation_id
                /\ ctx.op = operations[i]
                /\ \A n \in 1..Len(requests) :
                       /\ requests[n].method = operations[i].method
                       /\ ctx.path_params = <<>> =>
                              requests[n].url = "https://legal-api.sirotinsky.com"
                                                    \o operations[i].path)
    /\ [][UnknownCall' => operations' = operations]_vars

\* a direct call of an id that is not in the catalog has failed
C16_Witness ==
    /\ UnknownCall
    /\ ctx.operation_id = "unknownOperation"
    /\ outcome.msg = "Unknown operationId"
    /\ requests = <<>>

\* C17: after construction no step of the client (a direct call, a dynamic
\* invocation, a resolver query, a convenience operation, a listing, any
\* attempt of a request, whether it succeeds, fails or is the last one allowed)
\* changes the catalog: its ids, the operation under each id, their order.
C17_CatalogImmutable == [][operations' = operations]_vars

\* a dynamic invocation has used up its retries on connection errors
C17_Witness ==
    /\ pc = "done"
    /\ ctx.via = "__getattr__"
    /\ retries = 2
    /\ Len(responses) = 3
    /\ \A i \in 1..3 : responses[i].kind = "ConnectionError"
    /\ outcome.type = "error"
    /\ operations = ScenarioCatalog

\* C20 (as claimed): every request of every call, first attempt or retry,
\* whatever headers the caller passes, carries the Authorization header
\* "Bearer <token>" of the client.
C20_BearerOnEveryRequest ==
    \A n \in 1..Len(requests) :
        \E j \in 1..Len(requests[n].headers) :
            /\ requests[n].headers[j].k = "Authorization"
            /\ requests[n].headers[j].v = "Bearer " \o token

-----------------------------------------------------------------------------
(* Construction: properties *)

\* a construction is at its end: __init__ is about to return or raise
ConstructionEnded == pc = "done" /\ ctx.via = "__init__"

\* the construction got as far as the Catalog Builder
IndexBuilt == ConstructionEnded /\ outcome /= SchemaNotLoaded

\* the keys of a path item that name an HTTP method
HttpMethods == { "get", "put", "post", "delete", "options", "head", "patch", "trace" }

\* the (path, method) entries of a document, by position
MethodEntries(doc) == { i \in 1..Len(doc) : doc[i].key \in HttpMethods }

\* the (path, method) entries have pairwise distinct ids
DistinctIds(doc) ==
    \A i, j \in MethodEntries(doc) :
        i /= j => OperationOf[doc[i]].operation_id /= OperationOf[doc[j]].operation_id

\* C14: for every schema document whose (path, method) entries have pairwise
\* distinct ids the built catalog has exactly one operation per (path, method)
\* entry, and for a document with no such entry the build fails with the
\* empty-catalog error instead of returning a catalog
C14_SizeLaw ==
    (IndexBuilt /\ DistinctIds(ctx.schema)) =>
        LET n == Cardinality(MethodEntries(ctx.schema))
        IN  IF n = 0
            THEN outcome = NoOperationsFound
            ELSE /\ outcome.type = "value"
                 /\ Len(outcome.value) = n
                 /\ \A i \in MethodEntries(ctx.schema) :
                        \E k \in 1..Len(outcome.value) :
                            outcome.value[k] = OperationOf[ctx.schema[i]]

\* the location answered 200
Answered200(r) == r.kind = "status" /\ r.status = 200

\* the location answered 200 with a body that decodes
GaveDocument(r) == Answered200(r) /\ r.json_ok

\* the primary location did not give a document
PrimaryFailed == Len(responses) >= 1 /\ ~GaveDocument(responses[1])

\* the secondary location answered 200 with a body json.loads cannot decode
SecondaryUndecodable ==
    /\ Len(responses) = 2
    /\ Answered200(responses[2])
    /\ ~responses[2].json_ok

\* C18: when the primary location fails and the secondary location answers
\* successfully with a body the decoder cannot decode, construction fails with
\* the format-unsupported error, which is not the schema-unreachable error
C18_FormatUnsupported ==
    (ConstructionEnded /\ PrimaryFailed /\ SecondaryUndecodable) =>
        (outcome = SchemaIsYaml /\ outcome /= SchemaNotLoaded)

\* the location answered with a 2xx status
Answered2xx(r) == r.kind = "status" /\ 200 <= r.status /\ r.status < 300

\* the location answered with a 2xx status and a body that decodes
Succeeded2xx(r) == Answered2xx(r) /\ r.json_ok

\* the loader's order of requests, for a reading Ok of "the location succeeded"
\* and a reading Answered of "the location answered with a success status":
\* at most two requests, the primary first and once, the secondary once and
\* exactly when the primary did not succeed, and the schema-unreachable error
\* naming both locations when the secondary fails too
LoaderOrder(Ok(_), Answered(_)) ==
    ctx.via = "__init__" =>
        /\ Len(requests) <= 2
        /\ Len(responses) = Len(requests)
        /\ pc = "load_json" <=> Len(requests) = 0
        /\ Len(requests) >= 1 => requests[1].url = json_url
        /\ Len(requests) = 2 => requests[2].url = yaml_url
        /\ Len(responses) >= 1 =>
              ((pc = "load_yaml" \/ Len(responses) = 2) <=> ~Ok(responses[1]))
        /\ (Len(responses) = 1 /\ Ok(responses[1])) => pc \in {"build", "done"}
        /\ (ConstructionEnded /\ Len(responses) = 2 /\ ~Answered(responses[2])) =>
              /\ outcome = SchemaNotLoaded
              /\ Contains(outcome.detail, json_url)
              /\ Contains(outcome.detail, yaml_url)

OpsOf(catalog) == { catalog[i] : i \in 1..Len(catalog) }

\* the client is replaced by one whose catalog holds the same operations in
\* another insertion order
Reordered == operations' /= operations /\ OpsOf(operations') = OpsOf(operations)

\* the first operation of the catalog that contains some keyword
FirstLoose(kws) ==
    operations[CHOOSE i \in 1..Len(operations) :
                  /\ ContainsSome(operations[i], kws)
                  /\ \A j \in 1..(i - 1) : ~ContainsSome(operations[j], kws)]

\* C11 as stated: for two catalogs holding the same set of operations in
\* different insertion orders the resolver returns the same operation for every
\* keyword list
C11_OrderIndependent ==
    [][Reordered =>
        \A kws \in ResolverQueries :
            /\ _find_op(kws).found' = _find_op(kws).found
            /\ _find_op(kws).op' = _find_op(kws).op]_vars

\* C11, amended: for two such catalogs the resolver fails for the same keyword
\* lists and returns the same operation for every keyword list that some
\* operation contains in full; for a list that no operation contains in full
\* it returns, on every client ready for use, the first operation in insertion
\* order that contains one of the keywords, which depends on the order
C11_StrictOrderIndependent ==
    /\ [][Reordered =>
            \A kws \in ResolverQueries :
                /\ _find_op(kws).found' = _find_op(kws).found
                /\ SomeStrict(kws) => _find_op(kws).op' = _find_op(kws).op]_vars
    /\ [](pc = "idle" =>
            \A kws \in ResolverQueries :
                (~SomeStrict(kws) /\ SomeLoose(kws)) => _find_op(kws).op = FirstLoose(kws))

\* a client whose catalog holds two operations that both contain "get" is
\* about to be replaced by one built from the same operations in the other order
C11_Witness ==
    /\ ConstructionEnded
    /\ outcome.type = "value"
    /\ Len(operations) = 2
    /\ outcome.value = <<operations[2], operations[1]>>
    /\ \A i \in 1..2 : ContainsEvery(operations[i], <<"get">>)
    /\ <<"get">> \in ResolverQueries

-----------------------------------------------------------------------------
(* Request Executor: headers, body, classification *)

\* the keys of a dict of headers
HeaderKeys(d) == { d[i].k : i \in 1..Len(d) }

\* d[k]
HeaderValue(d, k) == d[CHOOSE i \in 1..Len(d) : d[i].k = k].v

\* result is defaults overwritten by overrides: every key of either, once; the
\* value of the override where there is one, of the default otherwise
MergedOver(result, defaults, overrides) ==
    /\ HeaderKeys(result) = HeaderKeys(defaults) \cup HeaderKeys(overrides)
    /\ Len(result) = Cardinality(HeaderKeys(result))
    /\ \A k \in HeaderKeys(result) :
           HeaderValue(result, k) =
               IF k \in HeaderKeys(overrides) THEN HeaderValue(overrides, k)
               ELSE HeaderValue(defaults, k)

\* C21: the headers of every request of a call are the client defaults
\* overwritten by the overrides of that call (the override wins on a key both
\* have, the other defaults are kept); the client defaults stay what
\* construction made them, so a call without overrides sends exactly the
\* default headers whatever calls came before it
C21_HeaderMerge ==
    /\ session_headers = SessionHeaders
    /\ \A i \in 1..Len(requests) :
           /\ MergedOver(requests[i].headers, SessionHeaders, ctx.headers)
           /\ ctx.headers = <<>> => requests[i].headers = SessionHeaders

\* a call that overrides Authorization has sent its request with the override
\* and the other defaults, and the client defaults still hold the bearer token
C21_Witness ==
    /\ pc = "done"
    /\ ctx.via = "call"
    /\ ctx.headers = << [k |-> "Authorization", v |-> "Basic YWxpY2U6cHc="] >>
    /\ Len(requests) >= 1
    /\ HeaderValue(requests[1].headers, "Authorization") = "Basic YWxpY2U6cHc="
    /\ HeaderValue(requests[1].headers, "Accept") = "application/json, */*"
    /\ HeaderValue(session_headers, "Authorization") = "Bearer " \o token

\* C22: when file attachments are present the request carries them and the
\* structured body of the same call is neither the JSON payload nor the form
\* data; with no files a structured body is the JSON payload; with no body
\* there is no payload
C22_BodyEncoding ==
    \A i \in 1..Len(requests) :
        LET r == requests[i]
        IN  IF Truthy(ctx.files)
            THEN r.files = ctx.files /\ r.json = None /\ r.data = None
            ELSE /\ r.json = ctx.body
                 /\ r.data = None
                 /\ ~Truthy(r.files)

\* a response with a 2xx status
Is2xx(r) == r.kind = "status" /\ r.status >= 200 /\ r.status <= 299

\* C23: an attempt that receives a 2xx status ends the call, with a success
\* result (the decoded value or the raw bytes) and never with an error; and a
\* call returns a success result only if its last attempt received a 2xx status
C23_SuccessClassification ==
    InExecute =>
        /\ \A i \in 1..Len(responses) :
               Is2xx(responses[i]) =>
                   /\ i = Len(responses)
                   /\ pc = "done"
                   /\ outcome.type = "value"
                   /\ outcome.value = IF final_resp.ctype_json THEN "json" ELSE "bytes"
        /\ (pc = "done" /\ outcome.type = "value") =>
               /\ Len(responses) >= 1
               /\ Is2xx(responses[Len(responses)])

\* the last response of the call is a status that is not 2xx
EndedOnNon2xx ==
    /\ Executed
    /\ Len(responses) >= 1
    /\ responses[Len(responses)].kind = "status"
    /\ ~Is2xx(responses[Len(responses)])

\* C24: every call whose final attempt received a non-2xx status (a terminal
\* one, or a 5xx after the last allowed attempt) ends with an error that
\* carries the status of that response and, as payload, its decoded body, or
\* {text: rawBody} when the body does not decode; it never returns a value
C24_ErrorClassification ==
    EndedOnNon2xx =>
        /\ outcome.type = "error"
        /\ outcome.cls = "LegalAPIError"
        /\ outcome.status = responses[Len(responses)].status
        /\ final_resp.kind = "status"
        /\ final_resp.status = outcome.status
        /\ outcome.payload = IF final_resp.json_ok THEN "json" ELSE "text"

\* retries = 1, a 500 then a 599 whose body does not decode: the call ends
\* with an error of status 599 and the payload {text: rawBody}
C24_Witness ==
    /\ EndedOnNon2xx
    /\ retries = 1
    /\ responses = << [kind |-> "status", status |-> 500],
                      [kind |-> "status", status |-> 599] >>
    /\ ~final_resp.json_ok
    /\ outcome.status = 599
    /\ outcome.payload = "text"

(***************************************************************************)
(* Facade: dynamic invocation                                              *)
(***************************************************************************)

\* a step that is client.name(...) for some name
DynamicStep == pc = "idle" /\ ctx'.via \in {"__getattr__", "attribute"}

\* the step is what call(name, the same arguments) does from the same state
SameAsCall ==
    LET g == ctx'.given
    IN  /\ CallBody(ctx'.via, <<>>, ctx'.operation_id, g.path_params, g.headers,
                    g.body, g.files, g)
        /\ UNCHANGED <<operations, retries, backoff, parked, others>>

\* the request that call(name, the given arguments) issues
RequestOfCall(name, g) ==
    LET op == Lookup(name)
    IN  [method  |-> op.method,
         url     |-> _build_url(op.path, g.path_params),
         headers |-> hdrs(g.headers),
         json    |-> IF send_json(g.body, g.files) THEN g.body ELSE None,
         data    |-> IF send_json(g.body, g.files) THEN None ELSE g.body,
         files   |-> g.files]

\* the access fails and no request is issued
FailsWithoutRequest ==
    /\ pc' = "done"
    /\ outcome' = Propagated("AttributeError")
    /\ requests' = <<>>
    /\ responses' = <<>>

C26_DomainConcern ==
    (operations \in EndToEndCatalogs /\ pc /= "idle") =>
        /\ ctx.via = "efrsb_list_notices" => ctx.operation_id = "searchEFRSBNotices"
        /\ ctx.via = "efrsb_get_debtor" => ctx.operation_id = "getEFRSBDebtor"

(***************************************************************************)
(* Construction: id collisions                                             *)
(***************************************************************************)

\* the id under which the builder files the member at position i
IdAt(doc, i) == OperationOf[doc[i]].operation_id

\* positions i < j hold two (path, method) entries with the same id, and j is
\* the last (path, method) entry with that id
Collide(doc, i, j) ==
    /\ i \in MethodEntries(doc)
    /\ j \in MethodEntries(doc)
    /\ i < j
    /\ IdAt(doc, i) = IdAt(doc, j)
    /\ \A k \in MethodEntries(doc) : IdAt(doc, k) = IdAt(doc, j) => k <= j

\* C27: when two (path, method) entries of the document have the same id,
\* declared or synthesized, the build does not fail, the catalog holds a
\* single operation under that id, and it is the operation of the entry that
\* comes later in the document
C27_LastWriteWins ==
    IndexBuilt =>
        \A i, j \in 1..Len(ctx.schema) :
            Collide(ctx.schema, i, j) =>
                /\ outcome.type = "value"
                /\ Cardinality({ k \in 1..Len(outcome.value) :
                        outcome.value[k].operation_id = IdAt(ctx.schema, j) }) = 1
                /\ \E k \in 1..Len(outcome.value) :
                       outcome.value[k] = OperationOf[ctx.schema[j]]

\* the document holds GET /health without an operationId and then PUT /status
\* declared as get_health: the catalog built from it holds PUT /status alone
C27_Witness ==
    /\ IndexBuilt
    /\ ctx.schema = << Entry("/health", "get", "", TRUE),
                       Entry("/status", "put", "get_health", TRUE) >>
    /\ outcome.type = "value"
    /\ outcome.value = << Operation("PUT", "/status", "get_health") >>

(***************************************************************************)
(* Threads: properties                                                     *)
(***************************************************************************)

\* the frames of all threads: the running one and the parked ones
Frames == { Frame } \cup { parked[i] : i \in 1..Len(parked) }

\* the call of frame f is inside _request or has left it
InCall(f) == f.pc \in {"attempt", "done"} /\ f.ctx.op /= NoOp

\* the attempts, the sleeps and the outcome of the call of frame f follow from
\* the responses to its own requests, and its requests carry its own headers
OwnCall(f) ==
    LET n == Len(f.responses)
        last == f.responses[n]
    IN  /\ Len(f.requests) = n
        /\ n <= retries + 1
        /\ \A i \in 1..(n - 1) : Transient(f.responses[i])
        /\ f.attempt = IF f.pc = "attempt" THEN n + 1 ELSE n
        /\ f.sleeps = [i \in 1..(f.attempt - 1) |-> SleepFor(i)]
        /\ f.pc = "attempt" =>
               /\ f.outcome = NoOutcome
               /\ n >= 1 => Transient(last)
        /\ f.pc = "done" =>
               /\ n >= 1
               /\ f.outcome.type = "value" <=> Is2xx(last)
               /\ f.outcome.type = "error" <=> ~Is2xx(last)
               /\ last.kind = "status" => f.outcome.status = IF Is2xx(last) THEN 0
                                                              ELSE last.status
               /\ Transient(last) => n = retries + 1
        /\ \A i \in 1..n :
               /\ f.requests[i].headers = update(SessionHeaders, f.ctx.given.headers)
               /\ f.requests[i].url = _build_url(f.ctx.op.path, f.ctx.given.path_params)

\* C28: with calls of several threads interleaved on one client, each call's
\* number of attempts, its sleeps and its outcome follow from the responses to
\* its own requests alone, its retry budget is its own, its requests carry
\* its own headers, and the catalog and the session headers stay as they were
C28_IndependentCalls ==
    /\ operations = ScenarioCatalog
    /\ session_headers = SessionHeaders
    /\ \A f \in Frames : InCall(f) => OwnCall(f)

\* retries = 1: one thread's call has failed after two 500 answers while the
\* call of another thread, made with a header of its own, has got a 500 and is
\* about to use its one retry
C28_Witness ==
    /\ retries = 1
    /\ pc = "done"
    /\ ctx.given.headers = <<>>
    /\ responses = << [kind |-> "status", status |-> 500],
                      [kind |-> "status", status |-> 500] >>
    /\ outcome.type = "error"
    /\ \E i \in 1..Len(parked) :
           /\ parked[i].pc = "attempt"
           /\ parked[i].attempt = 2
           /\ parked[i].ctx.given.headers /= <<>>
           /\ parked[i].responses = << [kind |-> "status", status |-> 500] >>

(***************************************************************************)
(* Reference bot: properties                                               *)
(***************************************************************************)

\* the last update was this text; where nothing was done with it, or its
\* handler sent its reply and returned
Received(text) == handling.text = text /\ ~handling.raised

\* C29: in every conversation state, and before the conversation has started,
\* an update /start or /help is handled and leaves the conversation in MAIN
C29_StartHelpAnywhere ==
    (Received("/start") \/ Received("/help")) =>
        /\ handling.handler /= ""
        /\ conversation = "MAIN"

\* the section states
Sections == ConversationStates \ { "MAIN" }

\* where the navigation leads from a state on a text that is not a command
Navigation(from, text) ==
    IF from \in Sections
    THEN IF text \in { BTN.BACK, BTN.HOME } THEN "MAIN" ELSE from
    ELSE IF text = BTN.ABOUT THEN "ABOUT"
    ELSE IF text = BTN.PRODUCTS THEN "PRODUCTS"
    ELSE IF text = BTN.PRICING THEN "PRICING"
    ELSE IF text = BTN.FAQ THEN "FAQ"
    ELSE IF text = BTN.CONTACTS THEN "CONTACTS"
    ELSE "MAIN"

\* the last update reached a started conversation and was a text or /cancel
Navigated ==
    /\ handling.from \in ConversationStates
    /\ ~IsCommand(handling.text) \/ handling.text = "/cancel"

\* the state the conversation is to be in after the last update
Destination ==
    IF handling.text = "/cancel" THEN "MAIN"
    ELSE Navigation(handling.from, strip(handling.text, " "))

RetriesExhaustedError(err) == LegalAPIError("Request failed after retries", 0, "", err)

\* C40: for every retries >= 0 each execute issues at least one request and
\* ends inside the loop, never with the error of the statement after the loop;
\* with retries < 0 the loop runs zero times: no request is issued and that
\* error, with last_err None, is what the call raises
C40_PostLoopUnreachable ==
    /\ (InExecute /\ retries >= 0) =>
           /\ outcome.msg /= "Request failed after retries"
           /\ pc = "done" => Len(requests) >= 1
    /\ (InExecute /\ retries < 0) =>
           /\ pc = "done"
           /\ requests = <<>>
           /\ sleeps = <<>>
           /\ outcome = RetriesExhaustedError("None")

\* a call on a client with retries = -1 has ended without a request
C40_Witness ==
    /\ Executed
    /\ retries = -1
    /\ requests = <<>>
    /\ outcome.msg = "Request failed after retries"

(***************************************************************************)
(* Request Executor: termination                                           *)
(***************************************************************************)

\* C34: for every retries >= 0 and every sequence of attempt outcomes, when
\* each request completes or times out, a call that has entered _request
\* eventually returns a value or raises an error, and it does so after at most
\* retries + 1 requests and at most retries sleeps
C34_Termination ==
    /\ (pc = "attempt") ~> (pc = "done" /\ outcome.type \in {"value", "error"})
    /\ [](InExecute => (Len(requests) <= retries + 1 /\ Len(sleeps) <= retries))

\* a call on a client with retries = 2 has ended after three requests and two
\* sleeps
C34_Witness ==
    /\ Executed
    /\ retries = 2
    /\ Len(requests) = 3
    /\ Len(sleeps) = 2
    /\ outcome.type = "error"

(***************************************************************************)
(* Request Executor: the error of a call that failed after several attempts *)
(***************************************************************************)

\* C35: when an execute made several attempts and ended in a LegalAPIError,
\* the error is that of the last attempt: after a last response with a status,
\* the status of that response and the payload read from its body; after a
\* last connection error or timeout, the network error carrying that exception
C35_LastAttemptSurfaced ==
    (Executed /\ Len(responses) >= 2 /\ outcome.cls = "LegalAPIError") =>
        LET last == responses[Len(responses)]
        IN  /\ last.kind = "status" =>
                   /\ final_resp.kind = "status"
                   /\ final_resp.status = last.status
                   /\ outcome = LegalAPIError("HTTP", last.status, _safe_json(final_resp), "")
            /\ last.kind /= "status" =>
                   /\ IsCaught(last.kind)
                   /\ outcome = LegalAPIError("Network error at", 0, "", last.kind)

\* a 500, then a connection error, then a timeout: the error is the timeout's
C35_Witness ==
    /\ Executed
    /\ retries = 2
    /\ Len(responses) = 3
    /\ responses[1] = [kind |-> "status", status |-> 500]
    /\ responses[2].kind = "ConnectionError"
    /\ responses[3].kind = "Timeout"
    /\ outcome.detail = "Timeout"

\* a 500 answered with text, then a 599 answered with JSON: status 599 and
\* the decoded body
C35_Witness5xx ==
    /\ Executed
    /\ retries = 1
    /\ responses = << [kind |-> "status", status |-> 500], [kind |-> "status", status |-> 599] >>
    /\ outcome.status = 599
    /\ outcome.payload = "json"

(***************************************************************************)
(* Resolver: a query with no effective keyword                             *)
(***************************************************************************)

\* kws is empty or holds empty strings only
NoEffectiveKeyword(kws) == \A i \in 1..Len(kws) : kws[i] = ""

\* C38: when the keyword list is empty or holds only empty strings, the
\* resolver does not fail, and the operation it returns is the one of the
\* whole catalog that is minimal under (length of id, id)
C38_NoEffectiveKeyword ==
    (pc /= "idle" /\ ctx.via = "_find_op" /\ NoEffectiveKeyword(ctx.keywords)) =>
        /\ outcome.type = "value"
        /\ outcome.value = ctx.op
        /\ \E i \in 1..Len(operations) : operations[i] = ctx.op
        /\ \A i \in 1..Len(operations) :
               operations[i] = ctx.op \/ Preferred(ctx.op, operations[i])

\* a query of one empty string on a catalog of three operations whose first is
\* not the minimal one: the resolver returned the third
C38_Witness ==
    /\ pc = "done"
    /\ ctx.via = "_find_op"
    /\ ctx.keywords = <<"">>
    /\ Len(operations) = 3
    /\ ctx.op = operations[3]
    /\ outcome.type = "value"

(***************************************************************************)
(* Construction: synthesized ids                                           *)
(***************************************************************************)

\* C39 (as claimed): two distinct (path, method) entries of one document that
\* both lack an operationId receive different synthesized ids, and the catalog
\* built from the document holds the operation of each
C39_SyntheticIdsDistinct ==
    IndexBuilt =>
        \A i, j \in MethodEntries(ctx.schema) :
            (/\ i /= j
             /\ ctx.schema[i].operationId = ""
             /\ ctx.schema[j].operationId = "") =>
                /\ IdAt(ctx.schema, i) /= IdAt(ctx.schema, j)
                /\ outcome.type = "value"
                /\ \E k \in 1..Len(outcome.value) :
                       outcome.value[k] = OperationOf[ctx.schema[i]]

\* GET /health and GET /health/ without operationIds are both get_health: the
\* catalog built from the two holds GET /health/ alone
C39_Collision ==
    /\ IndexBuilt
    /\ ctx.schema = << Entry("/health", "get", "", TRUE),
                       Entry("/health/", "get", "", TRUE) >>
    /\ outcome.type = "value"
    /\ outcome.value = << Operation("GET", "/health/", "get_health") >>

(***************************************************************************)
(* roman_to_int: properties                                                *)
(***************************************************************************)

\* s with the blanks at both ends taken off and in upper case
Trimmed(s) == upper(strip(s, " "))

\* s has a character that is none of the seven numerals, in either case
HasForeignCharacter(s) ==
    \E i \in 1..Len(Trimmed(s)) : Char(Trimmed(s), i) \notin DOMAIN vals

\* somewhere in s a numeral stands immediately before a numeral of larger
\* value, and the two are not one of IV, IX, XL, XC, CD, CM
HasForbiddenPair(s) ==
    LET t == Trimmed(s)
    IN  \E i \in 1..(Len(t) - 1) :
            /\ Char(t, i) \in DOMAIN vals
            /\ Char(t, i + 1) \in DOMAIN vals
            /\ vals[Char(t, i)] < vals[Char(t, i + 1)]
            /\ SubSeq(t, i, i + 1) \notin { "IV", "IX", "XL", "XC", "CD", "CM" }

\* C33 (as claimed): roman_to_int raises ValueError, and returns no number,
\* for the empty or blank string, for a string with a character that is not one
\* of the seven numerals in either case (blanks at the ends apart), and for a
\* string in which a numeral is immediately followed by a larger one without
\* the two being an allowed subtractive pair
C33_RejectsInvalid ==
    (/\ roman.called
     /\ \/ Trimmed(roman.s) = ""
        \/ HasForeignCharacter(roman.s)
        \/ HasForbiddenPair(roman.s)) =>
        /\ roman.outcome.type = "error"
        /\ roman.outcome.cls = "ValueError"

\* IVX holds V immediately before X, and the call returned 14
C33_ForbiddenPairAccepted ==
    /\ roman.called
    /\ roman.s = "IVX"
    /\ roman.outcome = ReturnTotal(14)

\* what does hold: the blank string, a foreign character, and a forbidden pair
\* whose first numeral does not close a subtractive pair are all refused
C33_RejectsWhatItReads ==
    (/\ roman.called
     /\ \/ Trimmed(roman.s) = ""
        \/ HasForeignCharacter(roman.s)
        \/ Len(Trimmed(roman.s)) = 2 /\ HasForbiddenPair(roman.s)) =>
        roman.outcome.type = "error"

(***************************************************************************)
(* Survey bot: the database functions on a missing table                   *)
(***************************************************************************)

\* C32 (as claimed): called when the table respondents does not exist,
\* get_last_rows creates it and returns the empty list, and get_stats creates
\* it and returns the empty metrics; after either call the table exists
C32_MissingTableCreated ==
    (db_result.fn \in { "get_last_rows", "get_stats" } /\ ~db_result.had_table) =>
        /\ has_table
        /\ db_result.type = "value"
        /\ db_result.fn = "get_last_rows" => db_result.value = <<>>
        /\ db_result.fn = "get_stats" => db_result.value = EmptyMetrics

\* get_last_rows returned the empty list and the table is still missing
C32_StillMissing ==
    /\ db_result.fn = "get_last_rows"
    /\ ~db_result.had_table
    /\ db_result.type = "value"
    /\ db_result.value = <<>>
    /\ ~has_table

\* what does hold: get_stats creates the missing table and returns the empty
\* metrics, get_last_rows returns the empty list, and count_rows,
\* export_csv_bytes and delete_user_data fail exactly when the table is missing
C32_AsCoded ==
    /\ (db_result.fn = "get_stats" /\ ~db_result.had_table) =>
           has_table /\ db_result.value = EmptyMetrics
    /\ (db_result.fn = "get_last_rows" /\ ~db_result.had_table) =>
           ~has_table /\ db_result.value = <<>>
    /\ db_result.fn \in { "count_rows", "export_csv_bytes", "delete_user_data" } =>
           (db_result.type = "error" <=> ~db_result.had_table)

(***************************************************************************)
(* Survey bot: properties of the conversation                              *)
(* Every step of the survey bot handles one update, which seen describes   *)
(* in the state after the step.                                            *)
(***************************************************************************)

\* the last update was /cancel, sent in one of the six states
Cancelled == seen.text = "/cancel" /\ seen.from \in SurveyStates

RECURSIVE Decimal(_)
\* the decimal numeral of n
Decimal(n) ==
    IF n < 10 THEN Char("0123456789", n + 1)
    ELSE Decimal(n \div 10) \o Char("0123456789", (n % 10) + 1)

\* the numerals of 10..120
AgeNumerals == { Decimal(n) : n \in 10..120 }

\* the answer text is not acceptable at the question state: a name or city of
\* fewer than 2 characters, an age that is not a number of 10..120, an
\* experience or a consent that is not one of the options; blanks at the ends
\* of the text do not count
InvalidAnswer(state, text) ==
    LET answer == Stripped[text]
    IN  CASE state = "Q_NAME" -> Len(answer) < 2
          [] state = "Q_AGE" -> answer \notin AgeNumerals
          [] state = "Q_CITY" -> Len(answer) < 2
          [] state = "Q_STACK" ->
                 answer \notin { "Never", "Novice", "1-3 years", "3+ years" }
          [] state = "Q_CONSENT" -> answer \notin { "Da", "Net" }
          [] OTHER -> FALSE

\* the moves of the conversation: into MENU from no conversation, through
\* the questions in their order, and back to MENU
SurveyOrder ==
    { <<NoConversation, "MENU">>, <<"MENU", "Q_NAME">>, <<"Q_NAME", "Q_AGE">>,
      <<"Q_AGE", "Q_CITY">>, <<"Q_CITY", "Q_STACK">>, <<"Q_STACK", "Q_CONSENT">> }
    \cup { <<q, "MENU">> : q \in SurveyStates }

\* the states are visited in the order of the questions, and Q_NAME is
\* entered from MENU by the survey button only
InOrder ==
    /\ seen.from /= chat => <<seen.from, chat>> \in SurveyOrder
    /\ (chat = "Q_NAME" /\ seen.from /= chat) =>
           Stripped[seen.text] = SurveyBTN.SURVEY

\* an answer that is not acceptable keeps the state and stores nothing
InvalidKept ==
    (seen'.handler \in { "q_name", "q_age", "q_city", "q_stack", "q_consent" }
     /\ InvalidAnswer(seen'.from, seen'.text)) =>
        /\ chat' = chat
        /\ user_data' = user_data
        /\ respondents' = respondents

\* the row of the user made of the answers of the pass
RowOfAnswers(a) ==
    Row(effective_user.id, a.q_name, a.q_age, a.q_city, a.q_stack, a.q_consent = "True")

\* the table changes by one row at a time, added at the end by a consent
\* answer that is acceptable, the row being the answers given in this pass,
\* with the age in 10..120
InsertedAtConsent ==
    (Len(respondents') > Len(respondents)) =>
        /\ seen'.handler = "q_consent"
        /\ ~InvalidAnswer("Q_CONSENT", seen'.text)
        /\ respondents' = Append(respondents, RowOfAnswers(answers'))
        /\ answers'.q_name /= "" /\ answers'.q_city /= "" /\ answers'.q_stack /= ""
        /\ answers'.q_age \in 10..120

\* the last update was the consent answer that ended the survey
Completed == seen.handler = "q_consent" /\ seen.from = "Q_CONSENT" /\ chat = "MENU"

\* C36 (as claimed): the question states are visited in their order only,
\* entered from MENU through the survey button; an invalid answer keeps the
\* state and stores nothing; a completed survey has inserted exactly one row,
\* at the valid consent answer, made of the answers of that same pass, with
\* the age in 10..120
C36_SurveyAsStated ==
    /\ [](InOrder /\ (Completed => answers.inserted = 1))
    /\ [][InvalidKept /\ InsertedAtConsent]_vars

\* the consent answer was given twice in one pass, the reply to the first
\* having failed: the survey is completed with two rows of the same answers
C36_TwoRowsOnePass ==
    /\ Completed
    /\ answers.inserted = 2
    /\ respondents = << RowOfAnswers(answers), RowOfAnswers(answers) >>

\* what does hold: the order of the questions, the invalid answers, the rows
\* inserted only by acceptable consent answers and made of the answers of the
\* same pass
C36_AsCoded ==
    /\ []InOrder
    /\ [][InvalidKept /\ InsertedAtConsent]_vars

\* the last update was the button that deletes the user's data
DeleteAsked(u) == u.handler = "handle_menu" /\ Stripped[u.text] = SurveyBTN.DELETE_ME

\* C37: the action 'delete my data' removes every row whose tg_user_id is the
\* user's and no other row, passes the number of rows it removed to the reply,
\* and keeps the conversation in MENU; applied again, with no row of the user
\* left, it removes nothing and reports 0
C37_DeleteMyData ==
    /\ [](DeleteAsked(seen) =>
            /\ chat = "MENU"
            /\ \A i \in 1..Len(respondents) :
                   respondents[i].tg_user_id /= effective_user.id)
    /\ [][DeleteAsked(seen') =>
            LET Others(row) == row.tg_user_id /= effective_user.id
                mine == { i \in 1..Len(respondents) : ~Others(respondents[i]) }
            IN  /\ chat = "MENU"
                /\ respondents' = SelectSeq(respondents, Others)
                /\ seen'.reply = Said("deleted", Cardinality(mine))
                /\ DeleteAsked(seen) => (respondents' = respondents /\ seen'.reply.n = 0)]_vars

\* the table held the row of the other user and one row of the user: the row
\* of the user is gone, 1 is reported, and the other row is still there
C37_Witness ==
    /\ DeleteAsked(seen)
    /\ seen.reply = Said("deleted", 1)
    /\ respondents = << OtherRow >>
    /\ answers.inserted = 1
    /\ chat = "MENU"

====
